---- MODULE Spec2Model ----
(***************************************************************************)
(* Model of the ZFF data pipeline: the corruption transforms of            *)
(* add_dirt.py and the cleaning transforms of movie_cleaner.py.            *)
(*                                                                         *)
(* Text is a sequence of one-character strings, so that slicing,           *)
(* splitting, replacing and integer parsing are computed, not assumed.     *)
(* A cell is a record [kind, s, n]: kind "str" (text s), "int" (n),        *)
(* "float" (the integer-valued float n, as pandas reads a numeric column   *)
(* that holds gaps), "nan" (the unknown cell, NaN) or "raise" (the call    *)
(* raised an exception instead of returning).                              *)
(***************************************************************************)
EXTENDS Integers, Sequences, FiniteSets, TLC

VARIABLES
    rt_pc,      \* position of a runtime cell: "src", "dirty", "done", "raised"
    rt_in,      \* how the scraped runtime cell was drawn: its shape and numbers
    rt_hr,      \* whether add_dirt sampled the cell for convert_to_hr
    rt_cell     \* the runtime cell now

runtimeVars == <<rt_pc, rt_in, rt_hr, rt_cell>>

VARIABLES
    yr_pc,      \* position of a year cell: "src", "dirty", "four", "done", "raised"
    yr_in,      \* how the scraped year cell was drawn
    yr_short,   \* whether add_dirt sampled the cell for the two-digit form
    yr_cell     \* the year cell now

yearVars == <<yr_pc, yr_in, yr_short, yr_cell>>

VARIABLES
    co_pc,      \* position of a country cell: "src", "spein", "dirty", "replaced", "counted"
    co_in,      \* the country cell as scraped
    co_spein,   \* whether add_dirt sampled the cell for 'Spain' -> 'Spein'
    co_usaa,    \* whether add_dirt sampled the cell for 'USA' -> 'USAA'
    co_cell,    \* the country cell now
    co_count    \* the country_count cell; -1 while the column does not exist

countryVars == <<co_pc, co_in, co_spein, co_usaa, co_cell, co_count>>

VARIABLES
    dr_pc,      \* position of a row in generate_director_value: "src", "done"
    dr_in,      \* the row as scraped: its director and directors cells
    dr_row      \* the row now

directorVars == <<dr_pc, dr_in, dr_row>>

VARIABLES
    dd_pc,      \* position of a table in drop_duplicates: "src", "done", "again"
    dd_table,   \* the table handed to drop_duplicates: a sequence of rows
    dd_keys,    \* the column names handed to drop_duplicates
    dd_out      \* the table drop_duplicates returned

dedupVars == <<dd_pc, dd_table, dd_keys, dd_out>>

VARIABLES
    dt_pc,      \* position of a table in add_dirt: "src", "misspelled", "hr_changed", "duplicated"
    dt_table,   \* the table handed to the transform: a sequence of rows
    dt_ratio,   \* the ratio handed to the transform, in hundredths
    dt_term,    \* the real_value and misspelled_value of add_misspelling_to_column
    dt_sample,  \* the labels of the rows DataFrame.sample drew, in the order drawn
    dt_out      \* the table the transform returned

dirtVars == <<dt_pc, dt_table, dt_ratio, dt_term, dt_sample, dt_out>>

VARIABLES
    st_pc,      \* position of a table in split_title: "src", "done", "raised"
    st_table,   \* the film_title column handed to split_title: a sequence of cells
    st_out      \* the rows split_title returned: film_title and alt_title cells

splitVars == <<st_pc, st_table, st_out>>

VARIABLES
    rm_pc,      \* position of a table in remove_list_of_movies: "src", "done"
    rm_table,   \* the table handed to remove_list_of_movies: a sequence of rows
    rm_out      \* the table remove_list_of_movies returned

removeVars == <<rm_pc, rm_table, rm_out>>

VARIABLES
    cd_pc,      \* position of clean_data: the call it makes next, "written", "failed"
    cd_in,      \* the table read_csv returned: its column names and its rows
    cd_df,      \* cleaned_df, the table as the calls made so far left it
    cd_trace,   \* the calls clean_data has made, in order
    cd_file     \* the staged file: whether it was written, its columns, its rows

cleanVars == <<cd_pc, cd_in, cd_df, cd_trace, cd_file>>

VARIABLES
    cf_pc,      \* position of a cell handed to a cell function: "src", "done", "raised"
    cf_fn,      \* the cell function called
    cf_in,      \* the cell handed to it
    cf_out      \* the cell it returned

cellVars == <<cf_pc, cf_fn, cf_in, cf_out>>

VARIABLES
    cy_pc,      \* position of check_configured_years: "src", "returned", "raised"
    cy_years    \* FESTIVAL_YEAR_SCRAPE, the configured festival years

configVars == <<cy_pc, cy_years>>

VARIABLES
    pg_pc,          \* position of scrape_zff_year_page: "loop" (top of the while),
                    \* "navigate" (inside navigate_to_next_page), "scraped" (loop
                    \* left), "raised" (ScraperException), "error" (any other
                    \* exception, which nothing catches)
    pg_page_number, \* page_number
    pg_next_page,   \* next_page
    pg_movie_list,  \* the number of urls in movie_list
    pg_attempts     \* what each pass of the for loop met in the last call of
                    \* navigate_to_next_page: "clicked", "stale", "no_next_button",
                    \* "other_error"

pageVars == <<pg_pc, pg_page_number, pg_next_page, pg_movie_list, pg_attempts>>

VARIABLES
    ad_pc,          \* position of add_dirt: "duplicates" (before line 206),
                    \* "outliers" (before line 207), "to_csv" (after it), "raised"
    ad_movies_df,   \* movies_df
    ad_before,      \* movies_df as add_runtime_outliers received it
    ad_sample       \* the positions, in that table, of the rows
                    \* add_runtime_outliers sampled

addDirtVars == <<ad_pc, ad_movies_df, ad_before, ad_sample>>

vars == <<runtimeVars, yearVars, countryVars, directorVars, dedupVars,
        dirtVars, splitVars, removeVars, cleanVars, cellVars, configVars,
        pageVars, addDirtVars>>

\* what the steps on one column leave alone
notRuntimeVars == <<yearVars, countryVars, directorVars, dedupVars, dirtVars,
        splitVars, removeVars, cleanVars, cellVars, configVars, pageVars,
        addDirtVars>>

notYearVars == <<runtimeVars, countryVars, directorVars, dedupVars, dirtVars,
        splitVars, removeVars, cleanVars, cellVars, configVars, pageVars,
        addDirtVars>>

notCountryVars == <<runtimeVars, yearVars, directorVars, dedupVars, dirtVars,
        splitVars, removeVars, cleanVars, cellVars, configVars, pageVars,
        addDirtVars>>

notDirectorVars == <<runtimeVars, yearVars, countryVars, dedupVars, dirtVars,
        splitVars, removeVars, cleanVars, cellVars, configVars, pageVars,
        addDirtVars>>

notDedupVars == <<runtimeVars, yearVars, countryVars, directorVars, dirtVars,
        splitVars, removeVars, cleanVars, cellVars, configVars, pageVars,
        addDirtVars>>

notDirtVars == <<runtimeVars, yearVars, countryVars, directorVars, dedupVars,
        splitVars, removeVars, cleanVars, cellVars, configVars, pageVars,
        addDirtVars>>

notSplitVars == <<runtimeVars, yearVars, countryVars, directorVars,
        dedupVars, dirtVars, removeVars, cleanVars, cellVars, configVars,
        pageVars, addDirtVars>>

notRemoveVars == <<runtimeVars, yearVars, countryVars, directorVars,
        dedupVars, dirtVars, splitVars, cleanVars, cellVars, configVars,
        pageVars, addDirtVars>>

notCleanVars == <<runtimeVars, yearVars, countryVars, directorVars,
        dedupVars, dirtVars, splitVars, removeVars, cellVars, configVars,
        pageVars, addDirtVars>>

notCellVars == <<runtimeVars, yearVars, countryVars, directorVars, dedupVars,
        dirtVars, splitVars, removeVars, cleanVars, configVars, pageVars,
        addDirtVars>>

notConfigVars == <<runtimeVars, yearVars, countryVars, directorVars,
        dedupVars, dirtVars, splitVars, removeVars, cleanVars, cellVars,
        pageVars, addDirtVars>>

notPageVars == <<runtimeVars, yearVars, countryVars, directorVars, dedupVars,
        dirtVars, splitVars, removeVars, cleanVars, cellVars, configVars,
        addDirtVars>>

notAddDirtVars == <<runtimeVars, yearVars, countryVars, directorVars,
        dedupVars, dirtVars, splitVars, removeVars, cleanVars, cellVars,
        configVars, pageVars>>

----------------------------------------------------------------------------
(* Cells *)

NaN == [kind |-> "nan", s |-> <<>>, n |-> 0]

Raised == [kind |-> "raise", s |-> <<>>, n |-> 0]

StrCell(s) == [kind |-> "str", s |-> s, n |-> 0]

IntCell(n) == [kind |-> "int", s |-> <<>>, n |-> n]

FloatCell(n) == [kind |-> "float", s |-> <<>>, n |-> n]

isna(c) == c.kind = "nan"

isstr(c) == c.kind = "str"

isnum(c) == c.kind \in {"int", "float"}

----------------------------------------------------------------------------
(* Python str operations on sequences of characters *)

Upper == <<"A", "B", "E", "H", "I", "M", "N", "P", "R", "S", "U">>

LowerOf == <<"a", "b", "e", "h", "i", "m", "n", "p", "r", "s", "u">>

\* str.lower() on one character
LowerChar(c) ==
    IF \E i \in 1..Len(Upper) : Upper[i] = c
    THEN LowerOf[CHOOSE i \in 1..Len(Upper) : Upper[i] = c]
    ELSE c

\* str.lower()
Lower(s) == [i \in 1..Len(s) |-> LowerChar(s[i])]

IsSpace(c) == c = " "

RECURSIVE LStrip(_)
LStrip(s) == IF s # <<>> /\ IsSpace(Head(s)) THEN LStrip(Tail(s)) ELSE s

RECURSIVE RStrip(_)
RStrip(s) ==
    IF s # <<>> /\ IsSpace(s[Len(s)]) THEN RStrip(SubSeq(s, 1, Len(s) - 1)) ELSE s

\* str.strip()
Strip(s) == RStrip(LStrip(s))

\* s[:-3]
DropLast3(s) == SubSeq(s, 1, Len(s) - 3)

\* s[-3:]
Last3(s) == IF Len(s) <= 3 THEN s ELSE SubSeq(s, Len(s) - 2, Len(s))

\* s.startswith(p)
StartsWith(s, p) == Len(p) <= Len(s) /\ SubSeq(s, 1, Len(p)) = p

\* s.find(sub) counted from 1; 0 when sub does not occur
Find(s, sub) ==
    LET hits == {i \in 1..(Len(s) - Len(sub) + 1) : SubSeq(s, i, i + Len(sub) - 1) = sub}
    IN  IF hits = {} THEN 0 ELSE CHOOSE i \in hits : \A j \in hits : i <= j

\* sub in s
Contains(s, sub) == Find(s, sub) # 0

\* s.replace(old, new): every occurrence, leftmost first, not overlapping
RECURSIVE Replace(_, _, _)
Replace(s, old, new) ==
    LET i == Find(s, old)
    IN  IF i = 0 THEN s
        ELSE SubSeq(s, 1, i - 1) \o new
             \o Replace(SubSeq(s, i + Len(old), Len(s)), old, new)

\* s.split(sep): the list of pieces, one more than the occurrences of sep
RECURSIVE Split(_, _)
Split(s, sep) ==
    LET i == Find(s, sep)
    IN  IF i = 0 THEN <<s>>
        ELSE <<SubSeq(s, 1, i - 1)>> \o Split(SubSeq(s, i + Len(sep), Len(s)), sep)

DigitChars == <<"0", "1", "2", "3", "4", "5", "6", "7", "8", "9">>

IsDigit(c) == \E d \in 1..10 : DigitChars[d] = c

DigitVal(c) == (CHOOSE d \in 1..10 : DigitChars[d] = c) - 1

RECURSIVE NatStr(_)
NatStr(n) ==
    IF n < 10 THEN <<DigitChars[n + 1]>>
    ELSE NatStr(n \div 10) \o <<DigitChars[(n % 10) + 1]>>

\* str(n) for an int n
StrOfInt(n) == IF n < 0 THEN <<"-">> \o NatStr(0 - n) ELSE NatStr(n)

RECURSIVE NatVal(_)
NatVal(s) ==
    IF s = <<>> THEN 0 ELSE 10 * NatVal(SubSeq(s, 1, Len(s) - 1)) + DigitVal(s[Len(s)])

\* int(s) for text s: surrounding blanks and one sign are accepted, then
\* digits only; anything else is a ValueError (ok = FALSE)
ParseInt(s) ==
    LET t == Strip(s)
        signed == t # <<>> /\ Head(t) \in {"-", "+"}
        d == IF signed THEN Tail(t) ELSE t
        good == d # <<>> /\ \A i \in 1..Len(d) : IsDigit(d[i])
    IN  IF ~good THEN [ok |-> FALSE, n |-> 0]
        ELSE [ok |-> TRUE,
              n |-> IF signed /\ Head(t) = "-" THEN 0 - NatVal(d) ELSE NatVal(d)]

----------------------------------------------------------------------------
(* Constants of movie_cleaner.py *)

RUNTIME_MIN == 2

RUNTIME_MAX == 400

----------------------------------------------------------------------------
(* Runtime: add_dirt.convert_to_hr and the cells of clean_runtime_column *)

\* int(x) for a cell x, as [ok, n]
IntOf(c) ==
    CASE isstr(c) -> ParseInt(c.s)
      [] isnum(c) -> [ok |-> TRUE, n |-> c.n]
      [] OTHER -> [ok |-> FALSE, n |-> 0]

HrsText == <<" ", "h", "r", "s", " ">>

MinText == <<" ", "M", "i", "n">>

\* convert_to_hr with the remainder taken modulo 100 instead of 60: a slip
\* the round trip of C1 tells from the code
convert_to_hr_mod100(cell_value) ==
    IF ~isstr(cell_value) THEN cell_value
    ELSE LET minutes_only == ParseInt(Strip(DropLast3(Strip(cell_value.s))))
             hours == minutes_only.n \div 60
             min_remainder == minutes_only.n % 100
         IN  IF ~minutes_only.ok THEN cell_value
             ELSE StrCell(StrOfInt(hours) \o HrsText \o StrOfInt(min_remainder))

convert_to_hr(cell_value) ==
    IF ~isstr(cell_value) THEN cell_value      \* .strip() raises, caught
    ELSE LET minutes_only == ParseInt(Strip(DropLast3(Strip(cell_value.s))))
             hours == minutes_only.n \div 60
             min_remainder == minutes_only.n % 60
         IN  IF ~minutes_only.ok THEN cell_value
             ELSE StrCell(StrOfInt(hours) \o HrsText \o StrOfInt(min_remainder))

convert_hr_to_min(cell_value) ==
    IF ~isstr(cell_value) THEN cell_value
    ELSE LET cell_value_lower == Strip(Lower(cell_value.s))
             values == Split(cell_value_lower, <<"h", "r", "s">>)
             hours == ParseInt(Strip(values[1]))
             minutes == ParseInt(Strip(values[2]))
         IN  IF ~Contains(cell_value_lower, <<"h", "r", "s">>) THEN cell_value
             ELSE IF ~hours.ok \/ ~minutes.ok THEN StrCell(<<>>)
             ELSE StrCell(StrOfInt(hours.n * 60 + minutes.n) \o MinText)

convert_min_string_to_int(cell_value) ==
    IF isna(cell_value) THEN NaN
    ELSE IF isstr(cell_value) /\ Last3(Strip(Lower(cell_value.s))) = <<"m", "i", "n">>
    THEN LET min_number == ParseInt(Strip(DropLast3(Strip(cell_value.s))))
         IN  IF min_number.ok THEN IntCell(min_number.n) ELSE Raised
    ELSE IF IntOf(cell_value).ok THEN IntCell(IntOf(cell_value).n)
    ELSE NaN

\* check_runtime_outliers with the two bounds excluded: a slip C7 tells from
\* the code
check_runtime_outliers_exclusive(cell_value) ==
    IF isna(cell_value) THEN cell_value
    ELSE IF cell_value.n <= RUNTIME_MIN \/ cell_value.n >= RUNTIME_MAX THEN NaN
    ELSE cell_value

check_runtime_outliers(cell_value) ==
    IF isna(cell_value) THEN cell_value
    ELSE IF cell_value.n < RUNTIME_MIN \/ cell_value.n > RUNTIME_MAX THEN NaN
    ELSE cell_value

\* .astype('Int64') on a cell: whole numbers become ints, NaN stays unknown
AsInt64(c) == IF isnum(c) THEN IntCell(c.n) ELSE c

----------------------------------------------------------------------------
(* The runtime cells the model draws *)

MaxMinutes == 402

MaxHours == 7

MaxRemainder == 61

MaxGarbageLen == 2

\* spellings of the unit of '<n> Min': any case, with or without the space
MinUnits ==
    { MinText, <<"M", "i", "n">>, <<" ", "m", "i", "n">>, <<"m", "i", "n">>,
      <<" ", "M", "I", "N">>, <<"M", "i", "n", " ">> }

\* spellings of the separator of '<h> hrs <m>'
HrsSeps == { HrsText, <<"h", "r", "s">>, <<" ", "H", "R", "s", " ">> }

\* the outliers generate_outlier writes lie in 800..10000; three of them
OutlierMinutes == {800, 5000, 10000}

GarbageChars == {"a", "1", ".", "M"}

RECURSIVE TextsUpTo(_)
TextsUpTo(k) ==
    IF k = 0 THEN {<<>>}
    ELSE LET shorter == TextsUpTo(k - 1)
         IN  shorter \cup {Append(t, c) : t \in shorter, c \in GarbageChars}

\* prefixes that int() refuses: 'abc', '1.5', '' and the like
NonIntPrefixes == {p \in TextsUpTo(MaxGarbageLen) : ~ParseInt(p).ok}

GarbageSuffixes ==
    { <<>>, MinText, <<"M", "i", "n">>, <<"m", "i", "n">>, <<"h", "r", "s">>,
      <<" ", "h", "r", "s", " ", "1", "0">> }

RtIn(shape, a, b, unit) == [shape |-> shape, a |-> a, b |-> b, unit |-> unit]

RuntimeInputs ==
    {RtIn("min", n, 0, u) : n \in 0..MaxMinutes, u \in MinUnits}
    \cup {RtIn("min", n, 0, <<"M", "i", "n">>) : n \in OutlierMinutes}
    \cup {RtIn("hrs", h, m, u) : h \in 0..MaxHours, m \in 0..MaxRemainder, u \in HrsSeps}
    \cup {RtIn(k, n, 0, <<>>) : k \in {"bare", "int", "float"}, n \in 0..MaxMinutes}
    \cup {RtIn("other", 0, 0, p \o u) : p \in NonIntPrefixes, u \in GarbageSuffixes}
    \cup {RtIn("nan", 0, 0, <<>>)}

\* the scraped cell an input stands for
RuntimeCellOf(in) ==
    CASE in.shape = "min" -> StrCell(StrOfInt(in.a) \o in.unit)
      [] in.shape = "hrs" -> StrCell(StrOfInt(in.a) \o in.unit \o StrOfInt(in.b))
      [] in.shape = "bare" -> StrCell(StrOfInt(in.a))
      [] in.shape = "int" -> IntCell(in.a)
      [] in.shape = "float" -> FloatCell(in.a)
      [] in.shape = "other" -> StrCell(in.unit)
      [] OTHER -> NaN

\* the minutes an input of an accepted shape stands for
TotalMinutes(in) == IF in.shape = "hrs" THEN 60 * in.a + in.b ELSE in.a

InitRuntime ==
    /\ rt_in \in RuntimeInputs
    /\ rt_cell = RuntimeCellOf(rt_in)
    /\ rt_hr = FALSE
    /\ rt_pc = "src"

RuntimeIdle ==
    /\ rt_in = RtIn("nan", 0, 0, <<>>)
    /\ rt_cell = NaN
    /\ rt_hr = FALSE
    /\ rt_pc = "idle"

\* change_runtime_to_hour_min, a row it samples: the cell goes through convert_to_hr
ChangeRuntimeSampled ==
    /\ rt_pc = "src"
    /\ ~isna(rt_cell)
    /\ rt_cell' = convert_to_hr(rt_cell)
    /\ rt_hr' = TRUE
    /\ rt_pc' = "dirty"
    /\ UNCHANGED rt_in
    /\ UNCHANGED notRuntimeVars

\* change_runtime_to_hour_min, a row it does not sample
ChangeRuntimeNotSampled ==
    /\ rt_pc = "src"
    /\ ~isna(rt_cell)
    /\ rt_pc' = "dirty"
    /\ UNCHANGED <<rt_in, rt_hr, rt_cell>>
    /\ UNCHANGED notRuntimeVars

\* change_runtime_to_hour_min, a row whose runtime is unknown: filtered out
ChangeRuntimeDropped ==
    /\ rt_pc = "src"
    /\ isna(rt_cell)
    /\ rt_pc' = "dropped"
    /\ UNCHANGED <<rt_in, rt_hr, rt_cell>>
    /\ UNCHANGED notRuntimeVars

\* clean_runtime_column, first apply (convert_hr_to_min), on the cell read
\* from the scraped or the dirty file
ApplyConvertHrToMin ==
    /\ rt_pc \in {"src", "dirty"}
    /\ rt_cell' = convert_hr_to_min(rt_cell)
    /\ rt_pc' = "min_text"
    /\ UNCHANGED <<rt_in, rt_hr>>
    /\ UNCHANGED notRuntimeVars

\* clean_runtime_column, second apply (convert_min_string_to_int); an
\* exception leaves the apply and ends clean_runtime_column
ApplyConvertMinStringToInt ==
    /\ rt_pc = "min_text"
    /\ LET r == convert_min_string_to_int(rt_cell)
       IN  IF r.kind = "raise"
           THEN rt_pc' = "raised" /\ UNCHANGED rt_cell
           ELSE rt_pc' = "min_int" /\ rt_cell' = r
    /\ UNCHANGED <<rt_in, rt_hr>>
    /\ UNCHANGED notRuntimeVars

\* clean_runtime_column, third apply (check_runtime_outliers) and the cast
ApplyCheckRuntimeOutliers ==
    /\ rt_pc = "min_int"
    /\ rt_cell' = AsInt64(check_runtime_outliers(rt_cell))
    /\ rt_pc' = "done"
    /\ UNCHANGED <<rt_in, rt_hr>>
    /\ UNCHANGED notRuntimeVars

NextRuntime ==
    \/ ChangeRuntimeSampled
    \/ ChangeRuntimeNotSampled
    \/ ChangeRuntimeDropped
    \/ ApplyConvertHrToMin
    \/ ApplyConvertMinStringToInt
    \/ ApplyCheckRuntimeOutliers

----------------------------------------------------------------------------
(* Year: add_reduced_year_format and the cells of clean_year_column *)

MAX_YEAR == 2020

MIN_YEAR == 1930

\* the lambda of add_reduced_year_format: cell_value % 100
reduce_year(cell_value) ==
    CASE cell_value.kind = "int" -> IntCell(cell_value.n % 100)
      [] cell_value.kind = "float" -> FloatCell(cell_value.n % 100)
      [] OTHER -> Raised       \* text % 100 is a TypeError

\* convert_year_to_four with the century boundary at > 20 instead of >= 20:
\* a slip C2 tells from the code
convert_year_to_four_above20(cell_value) ==
    IF isna(cell_value) THEN cell_value
    ELSE LET parsed == IF isstr(cell_value)
                       THEN IF ParseInt(cell_value.s).ok
                            THEN IntCell(ParseInt(cell_value.s).n)
                            ELSE Raised
                       ELSE cell_value
             same(n) == [parsed EXCEPT !.n = n]
         IN  IF parsed.kind = "raise" THEN NaN
             ELSE IF parsed.n > 99 THEN parsed
             ELSE IF parsed.n > 20 THEN same(1900 + parsed.n)
             ELSE same(2000 + parsed.n)

convert_year_to_four(cell_value) ==
    IF isna(cell_value) THEN cell_value
    ELSE LET parsed == IF isstr(cell_value)
                       THEN IF ParseInt(cell_value.s).ok
                            THEN IntCell(ParseInt(cell_value.s).n)
                            ELSE Raised
                       ELSE cell_value
             same(n) == [parsed EXCEPT !.n = n]
         IN  IF parsed.kind = "raise" THEN NaN       \* caught: return np.nan
             ELSE IF parsed.n > 99 THEN parsed
             ELSE IF parsed.n >= 20 THEN same(1900 + parsed.n)
             ELSE same(2000 + parsed.n)

\* validate_year without its try: int(nan) raises: a slip C19 tells from the
\* code
validate_year_no_try(year) ==
    IF isstr(year) \/ isna(year) THEN Raised
    ELSE IF year.n > MAX_YEAR /\ year.n < MIN_YEAR THEN NaN
    ELSE IntCell(year.n)

\* validate_year with the range test its docstring intends (or, not and): a
\* slip C22 tells from the code
validate_year_in_range(year) ==
    IF isstr(year) THEN Raised
    ELSE IF isna(year) THEN NaN
    ELSE IF year.n > MAX_YEAR \/ year.n < MIN_YEAR THEN NaN
    ELSE IntCell(year.n)

validate_year(year) ==
    IF isstr(year) THEN Raised       \* text > int is a TypeError, outside the try
    ELSE IF isna(year) THEN NaN      \* both comparisons false, int(nan) caught
    ELSE IF year.n > MAX_YEAR /\ year.n < MIN_YEAR THEN NaN
    ELSE IntCell(year.n)

----------------------------------------------------------------------------
(* The year cells the model draws *)

MaxYearDrawn == 2025

\* texts that are no integer
YearGarbage ==
    { <<"B", "B">>, <<>>, <<"2", "0", "a">>, <<"1", ".", "5">>,
      <<"2", "0", "1", "4", ".", "0">> }

YrIn(shape, y, text) == [shape |-> shape, y |-> y, text |-> text]

YearInputs ==
    {YrIn(k, y, <<>>) : k \in {"int", "float", "digits", "zdigits"}, y \in 0..MaxYearDrawn}
    \cup {YrIn("other", 0, g) : g \in YearGarbage}
    \cup {YrIn("nan", 0, <<>>)}

YearCellOf(in) ==
    CASE in.shape = "int" -> IntCell(in.y)
      [] in.shape = "float" -> FloatCell(in.y)
      [] in.shape = "digits" -> StrCell(StrOfInt(in.y))
      [] in.shape = "zdigits" -> StrCell(<<"0">> \o StrOfInt(in.y))
      [] in.shape = "other" -> StrCell(in.text)
      [] OTHER -> NaN

InitYear ==
    /\ yr_in \in YearInputs
    /\ yr_cell = YearCellOf(yr_in)
    /\ yr_short = FALSE
    /\ yr_pc = "src"

YearIdle ==
    /\ yr_in = YrIn("nan", 0, <<>>)
    /\ yr_cell = NaN
    /\ yr_short = FALSE
    /\ yr_pc = "idle"

\* add_reduced_year_format, a row it samples (only known years are sampled)
ReduceYearSampled ==
    /\ yr_pc = "src"
    /\ ~isna(yr_cell)
    /\ LET r == reduce_year(yr_cell)
       IN  IF r.kind = "raise"
           THEN yr_pc' = "raised" /\ UNCHANGED yr_cell
           ELSE yr_pc' = "dirty" /\ yr_cell' = r
    /\ yr_short' = TRUE
    /\ UNCHANGED yr_in
    /\ UNCHANGED notYearVars

\* add_reduced_year_format, a row it does not sample
ReduceYearNotSampled ==
    /\ yr_pc = "src"
    /\ yr_pc' = "dirty"
    /\ UNCHANGED <<yr_in, yr_short, yr_cell>>
    /\ UNCHANGED notYearVars

\* clean_year_column, first apply (convert_year_to_four), on the cell read
\* from the scraped or the dirty file
ApplyConvertYearToFour ==
    /\ yr_pc \in {"src", "dirty"}
    /\ yr_cell' = convert_year_to_four(yr_cell)
    /\ yr_pc' = "four"
    /\ UNCHANGED <<yr_in, yr_short>>
    /\ UNCHANGED notYearVars

\* clean_year_column, second apply (validate_year) and the cast
ApplyValidateYear ==
    /\ yr_pc = "four"
    /\ LET r == validate_year(yr_cell)
       IN  IF r.kind = "raise"
           THEN yr_pc' = "raised" /\ UNCHANGED yr_cell
           ELSE yr_pc' = "done" /\ yr_cell' = AsInt64(r)
    /\ UNCHANGED <<yr_in, yr_short>>
    /\ UNCHANGED notYearVars

NextYear ==
    \/ ReduceYearSampled
    \/ ReduceYearNotSampled
    \/ ApplyConvertYearToFour
    \/ ApplyValidateYear

----------------------------------------------------------------------------
(* Country: add_misspelling_to_column, replace_value and count_countries *)

Spain == <<"S", "p", "a", "i", "n">>

Spein == <<"S", "p", "e", "i", "n">>

USA == <<"U", "S", "A">>

USAA == <<"U", "S", "A", "A">>

\* KNOWN_TERMS, in the order its keys are iterated
KNOWN_TERMS == << <<USAA, USA>>, <<Spein, Spain>> >>

\* the lambda replacing the first occurrence only: a slip C14 tells from the
\* code
misspell_first_occurrence(cell_value, real_value, misspelled_value) ==
    LET i == Find(cell_value.s, real_value)
    IN  IF i = 0 THEN cell_value
        ELSE StrCell(SubSeq(cell_value.s, 1, i - 1) \o misspelled_value
                     \o SubSeq(cell_value.s, i + Len(real_value), Len(cell_value.s)))

\* the lambda add_misspelling_to_column applies to a sampled cell
misspell(cell_value, real_value, misspelled_value) ==
    IF Contains(cell_value.s, real_value)
    THEN StrCell(Replace(cell_value.s, real_value, misspelled_value))
    ELSE cell_value

\* the logical mask of add_misspelling_to_column: the rows it may sample
misspell_mask(cell_value, real_value) ==
    ~isna(cell_value) /\ Contains(cell_value.s, real_value)

RECURSIVE replace_terms(_, _)
replace_terms(s, k) ==
    IF k > Len(KNOWN_TERMS) THEN s
    ELSE replace_terms(
             IF Contains(s, KNOWN_TERMS[k][1])
             THEN Replace(s, KNOWN_TERMS[k][1], KNOWN_TERMS[k][2])
             ELSE s,
             k + 1)

\* replace_value that stops at the first known term it finds: a slip C4
\* tells from the code
replace_value_first_term(cell_value) ==
    IF isna(cell_value) THEN cell_value
    ELSE LET found == {k \in 1..Len(KNOWN_TERMS) : Contains(cell_value.s, KNOWN_TERMS[k][1])}
             k == CHOOSE x \in found : \A y \in found : x <= y
         IN  IF found = {} THEN cell_value
             ELSE StrCell(Replace(cell_value.s, KNOWN_TERMS[k][1], KNOWN_TERMS[k][2]))

replace_value(cell_value) ==
    IF isna(cell_value) THEN cell_value
    ELSE StrCell(replace_terms(cell_value.s, 1))

count_countries(country_list) ==
    IF isna(country_list) THEN 0
    ELSE Len(Split(country_list.s, <<",">>))

----------------------------------------------------------------------------
(* The country cells the model draws *)

MaxPieces == 3

CountryPieces ==
    { USA, USAA, Spain, Spein, <<",">>, <<"U">>, <<"S">>, <<"A">>,
      <<"S", "p">>, <<"a">>, <<"e">>, <<"i", "n">> }

RECURSIVE PiecesUpTo(_)
PiecesUpTo(k) ==
    IF k = 0 THEN {<<>>}
    ELSE LET shorter == PiecesUpTo(k - 1)
         IN  shorter \cup {t \o p : t \in shorter, p \in CountryPieces}

\* country cells of the scraped file and of the tests
CountryExamples ==
    { <<",", "S", "p", "a", "i", "n", ",", "M", "e", "x", "i", "c", "o">>,
      <<"M", "e", "x", "i", "c", "o", ",", "S", "p", "e", "i", "n", ",", "I", "r", "e", "l", "a", "n", "d">>,
      <<"S", "p", "a", "i", "n", ",", "I", "r", "e", "l", "a", "n", "d">>,
      <<",", "A", "u", "s", "t", "r", "a", "l", "i", "a", ",", "U", "S", "A">> }

CountryInputs ==
    {StrCell(s) : s \in PiecesUpTo(MaxPieces) \cup CountryExamples} \cup {NaN}

InitCountry ==
    /\ co_in \in CountryInputs
    /\ co_cell = co_in
    /\ co_spein = FALSE
    /\ co_usaa = FALSE
    /\ co_count = -1
    /\ co_pc = "src"

CountryIdle ==
    /\ co_in = NaN
    /\ co_cell = NaN
    /\ co_spein = FALSE
    /\ co_usaa = FALSE
    /\ co_count = -1
    /\ co_pc = "idle"

\* add_dirt's first add_misspelling_to_column, a row it samples
MisspellSpainSampled ==
    /\ co_pc = "src"
    /\ misspell_mask(co_cell, Spain)
    /\ co_cell' = misspell(co_cell, Spain, Spein)
    /\ co_spein' = TRUE
    /\ co_pc' = "spein"
    /\ UNCHANGED <<co_in, co_usaa, co_count>>
    /\ UNCHANGED notCountryVars

\* add_dirt's first add_misspelling_to_column, a row it does not sample
MisspellSpainNotSampled ==
    /\ co_pc = "src"
    /\ co_pc' = "spein"
    /\ UNCHANGED <<co_in, co_spein, co_usaa, co_cell, co_count>>
    /\ UNCHANGED notCountryVars

\* add_dirt's second add_misspelling_to_column, a row it samples
MisspellUSASampled ==
    /\ co_pc = "spein"
    /\ misspell_mask(co_cell, USA)
    /\ co_cell' = misspell(co_cell, USA, USAA)
    /\ co_usaa' = TRUE
    /\ co_pc' = "dirty"
    /\ UNCHANGED <<co_in, co_spein, co_count>>
    /\ UNCHANGED notCountryVars

\* add_dirt's second add_misspelling_to_column, a row it does not sample
MisspellUSANotSampled ==
    /\ co_pc = "spein"
    /\ co_pc' = "dirty"
    /\ UNCHANGED <<co_in, co_spein, co_usaa, co_cell, co_count>>
    /\ UNCHANGED notCountryVars

\* replace_known_value on the country cell of the scraped or the dirty file
ReplaceKnownValue ==
    /\ co_pc \in {"src", "dirty"}
    /\ co_cell' = replace_value(co_cell)
    /\ co_pc' = "replaced"
    /\ UNCHANGED <<co_in, co_spein, co_usaa, co_count>>
    /\ UNCHANGED notCountryVars

\* add_country_count: the new column holds count_countries of the country cell
AddCountryCount ==
    /\ co_pc \in {"src", "dirty", "replaced"}
    /\ co_count' = count_countries(co_cell)
    /\ co_pc' = "counted"
    /\ UNCHANGED <<co_in, co_spein, co_usaa, co_cell>>
    /\ UNCHANGED notCountryVars

NextCountry ==
    \/ MisspellSpainSampled
    \/ MisspellSpainNotSampled
    \/ MisspellUSASampled
    \/ MisspellUSANotSampled
    \/ ReplaceKnownValue
    \/ AddCountryCount

----------------------------------------------------------------------------
(* Director: generate_director_value *)

concat_director_values(row) ==
    IF isna(row.directors) THEN row.director
    ELSE IF ~isna(row.directors) /\ isna(row.director) THEN row.directors
    ELSE IF ~isna(row.directors) /\ ~isna(row.director)
    THEN StrCell(row.director.s \o <<",">> \o row.directors.s)
    ELSE StrCell(<<>>)

MaxNameLen == 2

NameChars == {"A", "B", ","}

RECURSIVE NamesUpTo(_)
NamesUpTo(k) ==
    IF k = 0 THEN {<<>>}
    ELSE LET shorter == NamesUpTo(k - 1)
         IN  shorter \cup {Append(t, c) : t \in shorter, c \in NameChars}

DirectorCells == {StrCell(s) : s \in NamesUpTo(MaxNameLen)} \cup {NaN}

InitDirector ==
    /\ dr_in \in [director : DirectorCells, directors : DirectorCells]
    /\ dr_row = dr_in
    /\ dr_pc = "src"

DirectorIdle ==
    /\ dr_in = [director |-> NaN, directors |-> NaN]
    /\ dr_row = dr_in
    /\ dr_pc = "idle"

\* generate_director_value: the director cell becomes concat_director_values(row)
GenerateDirectorValue ==
    /\ dr_pc = "src"
    /\ dr_row' = [dr_row EXCEPT !.director = concat_director_values(dr_row)]
    /\ dr_pc' = "done"
    /\ UNCHANGED dr_in
    /\ UNCHANGED notDirectorVars

NextDirector == GenerateDirectorValue

----------------------------------------------------------------------------
(* drop_duplicates *)

\* the cells of row under the columns colnames
KeyOf(row, colnames) == [c \in colnames |-> row[c]]

\* DataFrame.drop_duplicates(subset=colnames): rows are scanned in order and a
\* row is kept when no earlier row has its key; kept rows keep their labels
RECURSIVE scan_duplicates(_, _, _)
scan_duplicates(rows, colnames, seen) ==
    IF rows = <<>> THEN <<>>
    ELSE LET k == KeyOf(Head(rows), colnames)
         IN  IF k \in seen
             THEN scan_duplicates(Tail(rows), colnames, seen)
             ELSE <<Head(rows)>> \o scan_duplicates(Tail(rows), colnames, seen \cup {k})

\* drop_duplicates keeping the last row of each key (keep='last'): a slip C10
\* tells from the code
drop_duplicates_keep_last(original_df, colnames) ==
    LET n == Len(original_df)
        reversed == [i \in 1..n |-> original_df[n + 1 - i]]
        kept == scan_duplicates(reversed, colnames, {})
    IN  [i \in 1..Len(kept) |-> kept[Len(kept) + 1 - i]]

\* drop_duplicates that stops at the first row it drops: a slip C11 tells from
\* the code
drop_duplicates_one_per_call(original_df, colnames) ==
    LET n == Len(original_df)
        repeats == {i \in 1..n : \E j \in 1..(i - 1) :
                       KeyOf(original_df[j], colnames) = KeyOf(original_df[i], colnames)}
    IN  IF repeats = {} THEN original_df
        ELSE LET i == CHOOSE r \in repeats : \A q \in repeats : r <= q
             IN  SubSeq(original_df, 1, i - 1) \o SubSeq(original_df, i + 1, n)

drop_duplicates(original_df, colnames) == scan_duplicates(original_df, colnames, {})

MaxRows == 4

\* "nan" is a missing link: DataFrame.drop_duplicates takes missing keys as equal
Links == {"zff/a", "zff/b", "nan"}

FestivalYears == {2010, 2011}

KeyLists == {{"link"}, {"festival_year"}, {"link", "festival_year"}}

\* tables as read_csv gives them: row i carries the label i - 1
DedupTables ==
    UNION { { [i \in 1..n |-> [idx |-> i - 1, link |-> l[i], festival_year |-> y[i]]] :
                l \in [1..n -> Links], y \in [1..n -> FestivalYears] } : n \in 0..MaxRows }

InitDedup ==
    /\ dd_table \in DedupTables
    /\ dd_keys \in KeyLists
    /\ dd_out = <<>>
    /\ dd_pc = "src"

DedupIdle ==
    /\ dd_table = <<>>
    /\ dd_keys = {}
    /\ dd_out = <<>>
    /\ dd_pc = "idle"

DropDuplicates ==
    /\ dd_pc = "src"
    /\ dd_out' = drop_duplicates(dd_table, dd_keys)
    /\ dd_pc' = "done"
    /\ UNCHANGED <<dd_table, dd_keys>>
    /\ UNCHANGED notDedupVars

\* drop_duplicates called on the table it returned
DropDuplicatesAgain ==
    /\ dd_pc = "done"
    /\ dd_table' = dd_out
    /\ dd_out' = drop_duplicates(dd_out, dd_keys)
    /\ dd_pc' = "again"
    /\ UNCHANGED dd_keys
    /\ UNCHANGED notDedupVars

NextDedup == DropDuplicates \/ DropDuplicatesAgain

----------------------------------------------------------------------------
(* Tables in add_dirt: the sampled transforms *)

\* round(num / den) of Python 3, num >= 0: the nearest integer, and the even
\* one of the two when num / den lies halfway
round(num, den) ==
    LET q == num \div den
        r == num % den
    IN  IF 2 * r < den THEN q
        ELSE IF 2 * r > den THEN q + 1
        ELSE IF q % 2 = 0 THEN q ELSE q + 1

\* the number of rows DataFrame.sample(frac=ratio) draws from n rows:
\* round(frac * n)
sample_size(ratio, n) == round(ratio * n, 100)

\* what DataFrame.sample can return for k of n rows: the positions drawn,
\* without replacement, in any order
Samples(n, k) ==
    {s \in [1..k -> 1..n] : \A a, b \in 1..k : a # b => s[a] # s[b]}

\* one order for each set of k positions: what matters of a sample that is
\* handed to DataFrame.update, which aligns on labels
SamplesInOrder(n, k) ==
    {s \in [1..k -> 1..n] : \A a, b \in 1..k : a < b => s[a] < s[b]}

\* the labels of the rows at the positions drawn
LabelsOf(df, sample) == [i \in 1..Len(sample) |-> df[sample[i]].idx]

IsSampled(label, labels) == \E i \in 1..Len(labels) : labels[i] = label

\* add_misspelling_to_column on the country column; sample: the positions
\* DataFrame.sample drew among the rows of the logical mask
add_misspelling_to_column(original_df, real_value, misspelled_value, sample) ==
    LET masked == SelectSeq(original_df,
                            LAMBDA row : misspell_mask(row.country, real_value))
        labels == LabelsOf(masked, sample)
    IN  [i \in 1..Len(original_df) |->
            IF IsSampled(original_df[i].idx, labels)
            THEN [original_df[i] EXCEPT
                     !.country = misspell(@, real_value, misspelled_value)]
            ELSE original_df[i]]

\* the rows change_runtime_to_hour_min keeps before it samples
runtime_notna(original_df) == SelectSeq(original_df, LAMBDA row : ~isna(row.runtime))

\* change_runtime_to_hour_min; sample: the positions DataFrame.sample drew
\* among the rows whose runtime is not missing
change_runtime_to_hour_min(original_df, sample) ==
    LET kept == runtime_notna(original_df)
        labels == LabelsOf(kept, sample)
    IN  [i \in 1..Len(kept) |->
            IF IsSampled(kept[i].idx, labels)
            THEN [kept[i] EXCEPT !.runtime = convert_to_hr(@)]
            ELSE kept[i]]

\* add_duplicate_rows appending the sample once: a slip C12 tells from the code
add_duplicate_rows_one_copy(original_df, sample) ==
    original_df \o [i \in 1..Len(sample) |->
                       [original_df[sample[i]] EXCEPT !.idx = i - 1]]

\* add_duplicate_rows; sample: the positions DataFrame.sample drew. The sample
\* is concatenated with itself under new labels 0, 1, ... (ignore_index) and
\* appended to the table
add_duplicate_rows(original_df, sample) ==
    LET new_df == [i \in 1..Len(sample) |-> original_df[sample[i]]]
        twice == new_df \o new_df
    IN  original_df \o [i \in 1..Len(twice) |-> [twice[i] EXCEPT !.idx = i - 1]]

MaxDirtRows == 3

\* ratios in hundredths; add_dirt uses 0.5, 0.1, 0.2 and the tests 0.4
RatioPercents == {0, 10, 40, 50, 100}

\* the misspellings add_dirt injects
DirtTerms == {<<Spain, Spein>>, <<USA, USAA>>}

DirtCountries ==
    { NaN, StrCell(USA),
      StrCell(Spain \o <<",">> \o USA \o <<",">> \o Spain) }

DirtRuntimes == {NaN, StrCell(StrOfInt(90) \o MinText)}

\* tables as read_csv gives them: row i carries the label i - 1
DirtTables ==
    UNION { { [i \in 1..n |-> [idx |-> i - 1, country |-> c[i], runtime |-> r[i]]] :
                c \in [1..n -> DirtCountries], r \in [1..n -> DirtRuntimes] } :
            n \in 0..MaxDirtRows }

InitDirt ==
    /\ dt_table \in DirtTables
    /\ dt_ratio \in RatioPercents
    /\ dt_term = <<>>
    /\ dt_sample = <<>>
    /\ dt_out = <<>>
    /\ dt_pc = "src"

DirtIdle ==
    /\ dt_table = <<>>
    /\ dt_ratio = 0
    /\ dt_term = <<>>
    /\ dt_sample = <<>>
    /\ dt_out = <<>>
    /\ dt_pc = "idle"

AddMisspellingToColumn ==
    /\ dt_pc = "src"
    /\ \E term \in DirtTerms :
          LET masked == SelectSeq(dt_table,
                                  LAMBDA row : misspell_mask(row.country, term[1]))
          IN  \E sample \in SamplesInOrder(Len(masked),
                                            sample_size(dt_ratio, Len(masked))) :
                  /\ dt_term' = term
                  /\ dt_sample' = LabelsOf(masked, sample)
                  /\ dt_out' = add_misspelling_to_column(dt_table, term[1], term[2], sample)
    /\ dt_pc' = "misspelled"
    /\ UNCHANGED <<dt_table, dt_ratio>>
    /\ UNCHANGED notDirtVars

ChangeRuntimeToHourMin ==
    /\ dt_pc = "src"
    /\ LET kept == runtime_notna(dt_table)
       IN  \E sample \in SamplesInOrder(Len(kept), sample_size(dt_ratio, Len(kept))) :
               /\ dt_sample' = LabelsOf(kept, sample)
               /\ dt_out' = change_runtime_to_hour_min(dt_table, sample)
    /\ dt_pc' = "hr_changed"
    /\ UNCHANGED <<dt_table, dt_ratio, dt_term>>
    /\ UNCHANGED notDirtVars

AddDuplicateRows ==
    /\ dt_pc = "src"
    /\ \E sample \in Samples(Len(dt_table), sample_size(dt_ratio, Len(dt_table))) :
           /\ dt_sample' = LabelsOf(dt_table, sample)
           /\ dt_out' = add_duplicate_rows(dt_table, sample)
    /\ dt_pc' = "duplicated"
    /\ UNCHANGED <<dt_table, dt_ratio, dt_term>>
    /\ UNCHANGED notDirtVars

NextDirt == AddMisspellingToColumn \/ ChangeRuntimeToHourMin \/ AddDuplicateRows

----------------------------------------------------------------------------
(* split_title *)

Slash == <<"/">>

\* s.split("/", 1): at most one split, at the first "/"
split_once(s) ==
    LET i == Find(s, Slash)
    IN  IF i = 0 THEN <<s>>
        ELSE <<SubSeq(s, 1, i - 1), SubSeq(s, i + 1, Len(s))>>

\* the number of columns of Series.str.split("/", n=1, expand=True): the most
\* pieces any title splits into; a missing title has no pieces
expand_width(titles) ==
    LET widths == {Len(split_once(titles[i].s)) : i \in {j \in 1..Len(titles) : isstr(titles[j])}}
    IN  IF widths = {} THEN 0 ELSE CHOOSE w \in widths : \A v \in widths : v <= w

\* row i of the expanded frame at column c: the piece, or missing where the
\* title is missing or has fewer pieces
expand_cell(title, c) ==
    IF isstr(title) /\ c <= Len(split_once(title.s))
    THEN StrCell(split_once(title.s)[c])
    ELSE NaN

\* split_title: the expanded frame is assigned to the two columns film_title
\* and alt_title; the assignment raises ValueError unless the frame has two
\* columns. [raised, rows]: whether it raised, and the rows it returned
split_title(titles) ==
    IF expand_width(titles) # 2 THEN [raised |-> TRUE, rows |-> <<>>]
    ELSE [raised |-> FALSE,
          rows |-> [i \in 1..Len(titles) |->
                      [film_title |-> expand_cell(titles[i], 1),
                       alt_title |-> expand_cell(titles[i], 2)]]]

MaxTitleLen == 3

MaxTitleRows == 2

TitleChars == {"A", "/"}

RECURSIVE TitlesUpTo(_)
TitlesUpTo(k) ==
    IF k = 0 THEN {<<>>}
    ELSE LET shorter == TitlesUpTo(k - 1)
         IN  shorter \cup {t \o <<c>> : t \in shorter, c \in TitleChars}

TitleCells == {StrCell(t) : t \in TitlesUpTo(MaxTitleLen)} \cup {NaN}

TitleTables == UNION {[1..n -> TitleCells] : n \in 0..MaxTitleRows}

InitSplit ==
    /\ st_table \in TitleTables
    /\ st_out = <<>>
    /\ st_pc = "src"

SplitIdle ==
    /\ st_table = <<>>
    /\ st_out = <<>>
    /\ st_pc = "idle"

SplitTitle ==
    /\ st_pc = "src"
    /\ LET result == split_title(st_table)
       IN  IF result.raised
           THEN st_pc' = "raised" /\ st_out' = <<>>
           ELSE st_pc' = "done" /\ st_out' = result.rows
    /\ UNCHANGED st_table
    /\ UNCHANGED notSplitVars

NextSplit == SplitTitle

----------------------------------------------------------------------------
(* remove_list_of_movies *)

\* films_to_drop as Python reads it: the literals "Kurzfilmprogramm:" and
\* "Short Cuts vol." have no comma between them and are one entry
films_to_drop ==
    <<
      <<"Z", "F", "F", " ", "M", "a", "s", "t", "e", "r", "s", ":">>,
      <<"Z", "F", "F", " ", "T", "a", "l", "k", "s", ":", " ">>,
      <<"A", " ", "C", "o", "n", "v", "e", "r", "s", "a", "t", "i", "o", "n",
        " ", "w", "i", "t", "h", ".", ".", ".">>,
      <<"A", " ", "C", "o", "n", "v", "e", "r", "s", "a", "t", "i", "o", "n",
        " ", "W", "i", "t", "h", " ", ".", ".", ".">>,
      <<"F", "i", "l", "m", "m", "u", "s", "i", "k", "k", "o", "n", "z", "e",
        "r", "t">>,
      <<"c", "r", "a", "f", "t", "w", "o", "r", "k">>,
      <<"P", "u", "b", "l", "i", "c", " ", "Z", "u", "r", "i", "c", "h", " ",
        "M", "a", "s", "t", "e", "r", " ", "C", "l", "a", "s", "s", ":">>,
      <<"I", "n", "t", "e", "r", "n", "a", "t", "i", "o", "n", "a", "l", "e",
        "r", " ", "F", "i", "l", "m", "m", "u", "s", "i", "k", "w", "e", "t",
        "t", "b", "e", "w", "e", "r", "b">>,
      <<"F", "i", "l", "m", "m", "u", "s", "i", "k", "w", "e", "t", "t", "b",
        "e", "w", "e", "r", "b">>,
      <<"K", "u", "r", "z", "f", "i", "l", "m", "e">>,
      <<"I", "n", "t", ".", " ", "F", "i", "l", "m", "m", "u", "s", "i", "k",
        "w", "e", "t", "t", "b", "e", "w", "e", "r", "b">>,
      <<"K", "u", "r", "z", "f", "i", "l", "m", "e", " ", "a", "u", "s", " ",
        "M", "e", "x", "i", "k", "o">>,
      <<"K", "u", "r", "z", "f", "i", "l", "m", "e", " ", "a", "u", "s", " ",
        "U", "n", "g", "a", "r", "n">>,
      <<"K", "u", "r", "z", "f", "i", "l", "m", "p", "r", "o", "g", "r", "a",
        "m", "m", ":", "S", "h", "o", "r", "t", " ", "C", "u", "t", "s", " ",
        "v", "o", "l", ".">>,
      <<"Z", "ü", "r", "c", "h", "e", "r", " ", "F", "i", "l", "m", "p", "r",
        "e", "i", "s", ":">>,
      <<"o", "n", "e", "d", "o", "t", "z", "e", "r", "o", "_", "c", "h">>,
      <<"w", "a", "v", "e", "l", "e", "n", "g", "t", "h", " ", "1">>,
      <<"w", "o", "w", "+", "f", "l", "u", "t", "t", "e", "r", " ", "1">>,
      <<"K", "u", "r", "z", "f", "i", "l", "m", "b", "l", "o", "c", "k">>,
      <<"K", "u", "r", "z", "f", "i", "l", "m", "p", "r", "o", "g", "r", "a",
        "m", "m">>,
      <<"K", "u", "r", "z", "e", "s", " ", "a", "u", "s", " ", "I", "t", "a",
        "l", "i", "e", "n">>,
      <<"K", "u", "r", "z", "e", "s", " ", "a", "u", "s", " ", "K", "o", "l",
        "u", "m", "b", "i", "e", "n">>,
      <<"K", "u", "r", "z", "e", "s", " ", "a", "u", "s", " ", "d", "e", "r",
        " ", "T", "ü", "r", "k", "e", "i">>
    >>

\* the loop over films_to_drop: each key word in turn filters out the rows
\* whose film_title starts with it
RECURSIVE drop_key_words(_, _)
drop_key_words(rows, k) ==
    IF k > Len(films_to_drop) THEN rows
    ELSE drop_key_words(
             SelectSeq(rows, LAMBDA row : ~StartsWith(row.film_title, films_to_drop[k])),
             k + 1)

remove_list_of_movies(original_df) == drop_key_words(original_df, 1)

MaxRemoveRows == 2

ShortCutsVol == <<"S", "h", "o", "r", "t", " ", "C", "u", "t", "s", " ", "v", "o", "l", ".">>

KurzfilmprogrammColon == <<"K", "u", "r", "z", "f", "i", "l", "m", "p", "r", "o", "g", "r", "a", "m", "m", ":">>

\* titles around the key words: each key word followed by a name, and titles
\* that miss a key word by case, by a leading blank or by a character
RemoveTitles ==
    {films_to_drop[k] \o <<" ", "A">> : k \in 1..Len(films_to_drop)}
    \cup { ShortCutsVol \o <<" ", "1">>,
           KurzfilmprogrammColon \o <<" ", "A">>,
           <<"z", "f", "f", " ", "m", "a", "s", "t", "e", "r", "s", ":", " ", "A">>,
           <<" ", "Z", "F", "F", " ", "M", "a", "s", "t", "e", "r", "s", ":", " ", "A">>,
           <<"Z", "F", "F", " ", "M", "a", "s", "t", "e", "r">>,
           <<"K", "u", "r", "z", "f", "i", "l", "m">>,
           <<"A", "n", "o", "n">> }

\* tables of n rows as read_csv gives them: row i carries the label i - 1
RemoveTables(n) ==
    { [i \in 1..n |-> [idx |-> i - 1, film_title |-> t[i]]] :
        t \in [1..n -> RemoveTitles] }

InitRemove ==
    /\ \E n \in 0..MaxRemoveRows : rm_table \in RemoveTables(n)
    /\ rm_out = <<>>
    /\ rm_pc = "src"

RemoveIdle ==
    /\ rm_table = <<>>
    /\ rm_out = <<>>
    /\ rm_pc = "idle"

RemoveListOfMovies ==
    /\ rm_pc = "src"
    /\ rm_out' = remove_list_of_movies(rm_table)
    /\ rm_pc' = "done"
    /\ UNCHANGED rm_table
    /\ UNCHANGED notRemoveVars

NextRemove == RemoveListOfMovies

----------------------------------------------------------------------------
(* clean_data: the transforms on a table, in the order of their calls *)

\* A table is [cols, rows, raised]: the column names in order and the rows,
\* each a record of its label idx and one cell for every column; raised is
\* TRUE for the outcome of a transform that raised instead of returning.

TableRaised == [cols |-> <<>>, rows |-> <<>>, raised |-> TRUE]

FESTIVAL_IDENTIFIER == <<"Z", "F", "F">>

COLN_NAMES_TO_INCLUDE ==
    << "link", "film_title", "alt_title", "festival_name", "festival_year",
       "director", "country", "country_count", "year", "languages", "runtime" >>

HasCol(df, c) == \E i \in 1..Len(df.cols) : df.cols[i] = c

\* original_df[c] = cells: the column is overwritten, or appended when new
SetCol(df, c, cells) ==
    [cols |-> IF HasCol(df, c) THEN df.cols ELSE Append(df.cols, c),
     rows |-> [i \in 1..Len(df.rows) |->
                 [k \in DOMAIN df.rows[i] \cup {c} |->
                     IF k = c THEN cells[i] ELSE df.rows[i][k]]],
     raised |-> FALSE]

\* original_df[c] = original_df[c].apply(f), cells being f of each cell of
\* the column: KeyError without the column, and the error of f when it
\* raises on a cell
ApplyCol(df, c, cells) ==
    IF ~HasCol(df, c) THEN TableRaised
    ELSE IF \E i \in 1..Len(df.rows) : cells[i] = Raised THEN TableRaised
    ELSE SetCol(df, c, cells)

\* the rows of df whose labels are those of kept, a table of some of its rows
KeepRows(df, kept) ==
    [df EXCEPT !.rows = SelectSeq(df.rows,
                            LAMBDA row : \E i \in 1..Len(kept) : kept[i].idx = row.idx)]

split_title_of(df) ==
    IF ~HasCol(df, "film_title") THEN TableRaised
    ELSE LET split == split_title([i \in 1..Len(df.rows) |-> df.rows[i].film_title])
         IN  IF split.raised THEN TableRaised
             ELSE SetCol(SetCol(df, "film_title",
                                [i \in 1..Len(df.rows) |-> split.rows[i].film_title]),
                         "alt_title",
                         [i \in 1..Len(df.rows) |-> split.rows[i].alt_title])

\* the lambda of remove_leading_trailing_blanks
strip_blanks(cell_value) ==
    IF ~isna(cell_value) /\ isstr(cell_value) THEN StrCell(Strip(cell_value.s))
    ELSE cell_value

\* applymap: every cell of every column
remove_leading_trailing_blanks(df) ==
    [df EXCEPT !.rows = [i \in 1..Len(df.rows) |->
        [k \in DOMAIN df.rows[i] |->
            IF k = "idx" THEN df.rows[i][k] ELSE strip_blanks(df.rows[i][k])]]]

\* apply(concat_director_values, axis=1): row["directors"] and row["director"]
\* are KeyErrors without their columns
generate_director_value(df) ==
    IF ~HasCol(df, "directors") \/ ~HasCol(df, "director") THEN TableRaised
    ELSE SetCol(df, "director",
                [i \in 1..Len(df.rows) |-> concat_director_values(df.rows[i])])

add_festival_name_columnn(df) ==
    SetCol(df, "festival_name", [i \in 1..Len(df.rows) |-> StrCell(FESTIVAL_IDENTIFIER)])

\* a missing title makes the mask of str.startswith hold NaN, and ~ raises
remove_list_of_movies_of(df) ==
    IF ~HasCol(df, "film_title") THEN TableRaised
    ELSE IF \E i \in 1..Len(df.rows) : ~isstr(df.rows[i].film_title) THEN TableRaised
    ELSE KeepRows(df, remove_list_of_movies(
             [i \in 1..Len(df.rows) |->
                 [idx |-> df.rows[i].idx, film_title |-> df.rows[i].film_title.s]]))

\* drop_duplicates(cleaned_df, COLN_LINK, COLN_FESTIVAL_YEAR)
drop_duplicates_of(df) ==
    IF ~HasCol(df, "link") \/ ~HasCol(df, "festival_year") THEN TableRaised
    ELSE [df EXCEPT !.rows = drop_duplicates(df.rows, {"link", "festival_year"})]

replace_known_value(df) ==
    ApplyCol(df, "country", [i \in 1..Len(df.rows) |-> replace_value(df.rows[i].country)])

year_cell(cell_value) ==
    LET year == validate_year(convert_year_to_four(cell_value))
    IN  IF year = Raised THEN Raised ELSE AsInt64(year)

clean_year_column(df) ==
    ApplyCol(df, "year", [i \in 1..Len(df.rows) |-> year_cell(df.rows[i].year)])

\* the lambda of remove_leading_comma: cell_value[0] is an IndexError on the
\* empty text and a TypeError on a number
leading_comma(cell_value) ==
    IF isna(cell_value) THEN cell_value
    ELSE IF ~isstr(cell_value) \/ cell_value.s = <<>> THEN Raised
    ELSE IF cell_value.s[1] = "," THEN StrCell(Tail(cell_value.s))
    ELSE cell_value

remove_leading_comma(df) ==
    ApplyCol(df, "country", [i \in 1..Len(df.rows) |-> leading_comma(df.rows[i].country)])

add_country_count(df) ==
    IF ~HasCol(df, "country") THEN TableRaised
    ELSE SetCol(df, "country_count",
                [i \in 1..Len(df.rows) |-> IntCell(count_countries(df.rows[i].country))])

runtime_cell(cell_value) ==
    LET minutes == convert_min_string_to_int(convert_hr_to_min(cell_value))
    IN  IF minutes = Raised THEN Raised ELSE AsInt64(check_runtime_outliers(minutes))

clean_runtime_column(df) ==
    ApplyCol(df, "runtime", [i \in 1..Len(df.rows) |-> runtime_cell(df.rows[i].runtime)])

\* the projection taking the listed columns the table has, as reindexing
\* would: a slip C18 tells from the code
projection_of_present(df) ==
    LET present == SelectSeq(COLN_NAMES_TO_INCLUDE, LAMBDA c : HasCol(df, c))
    IN  [cols |-> present,
         rows |-> [i \in 1..Len(df.rows) |->
                     [k \in {"idx"} \cup {present[j] : j \in 1..Len(present)} |->
                         df.rows[i][k]]],
         raised |-> FALSE]

\* cleaned_df[COLN_NAMES_TO_INCLUDE]: KeyError when a listed column is absent
projection(df) ==
    IF \E j \in 1..Len(COLN_NAMES_TO_INCLUDE) : ~HasCol(df, COLN_NAMES_TO_INCLUDE[j])
    THEN TableRaised
    ELSE [cols |-> COLN_NAMES_TO_INCLUDE,
          rows |-> [i \in 1..Len(df.rows) |->
                      [k \in {"idx"} \cup {COLN_NAMES_TO_INCLUDE[j] :
                                              j \in 1..Len(COLN_NAMES_TO_INCLUDE)} |->
                          df.rows[i][k]]],
          raised |-> FALSE]

\* clean_data counting the countries before it strips the leading comma: a
\* slip C17 tells from the code
after_count_before_comma(call) ==
    CASE call = "clean_year_column" -> "add_country_count"
      [] call = "add_country_count" -> "remove_leading_comma"
      [] call = "remove_leading_comma" -> "clean_runtime_column"
      [] call = "split_title" -> "remove_leading_trailing_blanks"
      [] call = "remove_leading_trailing_blanks" -> "generate_director_value"
      [] call = "generate_director_value" -> "add_festival_name_columnn"
      [] call = "add_festival_name_columnn" -> "remove_list_of_movies"
      [] call = "remove_list_of_movies" -> "drop_duplicates"
      [] call = "drop_duplicates" -> "replace_known_value"
      [] call = "replace_known_value" -> "clean_year_column"
      [] call = "clean_runtime_column" -> "projection"
      [] call = "projection" -> "to_csv"

\* the statement of clean_data that follows the call of a transform
after(call) ==
    CASE call = "split_title" -> "remove_leading_trailing_blanks"
      [] call = "remove_leading_trailing_blanks" -> "generate_director_value"
      [] call = "generate_director_value" -> "add_festival_name_columnn"
      [] call = "add_festival_name_columnn" -> "remove_list_of_movies"
      [] call = "remove_list_of_movies" -> "drop_duplicates"
      [] call = "drop_duplicates" -> "replace_known_value"
      [] call = "replace_known_value" -> "clean_year_column"
      [] call = "clean_year_column" -> "remove_leading_comma"
      [] call = "remove_leading_comma" -> "add_country_count"
      [] call = "add_country_count" -> "clean_runtime_column"
      [] call = "clean_runtime_column" -> "projection"
      [] call = "projection" -> "to_csv"

\* the columns of the scraped file, in its order
ScrapedColumns ==
    << "link", "film_title", "genre", "country", "runtime", "languages",
       "subtitles", "director", "directors", "year", "festival_year" >>

\* a film with an alternative title, a leading comma and a short year
FilmWithAltTitle ==
    [ link |-> StrCell(<<"z", "f", "f", "/", "a">>), film_title |-> StrCell(<<"A", "/", "B">>),
      genre |-> StrCell(<<"D", "r", "a", "m", "a">>), country |-> StrCell(<<",", "U", "S", "A">>),
      runtime |-> StrCell(<<"9", "0", " ", "M", "i", "n">>), languages |-> StrCell(<<"d", "e">>), subtitles |-> NaN,
      director |-> StrCell(<<"X">>), directors |-> NaN,
      year |-> FloatCell(14), festival_year |-> IntCell(2010) ]

\* a festival talk, its title behind a blank, with dirt add_dirt injects
MastersTalk ==
    [ link |-> StrCell(<<"z", "f", "f", "/", "b">>), film_title |-> StrCell(<<" ", "Z", "F", "F", " ", "M", "a", "s", "t", "e", "r", "s", ":", " ", "A">>),
      genre |-> StrCell(<<"D", "r", "a", "m", "a">>), country |-> StrCell(<<"S", "p", "e", "i", "n">>),
      runtime |-> StrCell(<<"1", " ", "h", "r", "s", " ", "3", "0">>), languages |-> StrCell(<<"d", "e">>), subtitles |-> NaN,
      director |-> NaN, directors |-> StrCell(<<"Y">>),
      year |-> FloatCell(2014), festival_year |-> IntCell(2010) ]

\* a second row for the link of the first film, most cells missing
SameLinkFilm ==
    [ link |-> StrCell(<<"z", "f", "f", "/", "a">>), film_title |-> StrCell(<<"C">>),
      genre |-> StrCell(<<"D", "r", "a", "m", "a">>), country |-> NaN,
      runtime |-> NaN, languages |-> StrCell(<<"d", "e">>), subtitles |-> NaN,
      director |-> NaN, directors |-> NaN,
      year |-> NaN, festival_year |-> IntCell(2010) ]

\* a film whose country cell is a blank
BlankCountryFilm ==
    [ link |-> StrCell(<<"z", "f", "f", "/", "d">>), film_title |-> StrCell(<<"D", "/">>),
      genre |-> StrCell(<<"D", "r", "a", "m", "a">>), country |-> StrCell(<<" ">>),
      runtime |-> StrCell(<<"9", "0", " ", "M", "i", "n">>), languages |-> StrCell(<<"d", "e">>), subtitles |-> NaN,
      director |-> StrCell(<<"X">>), directors |-> StrCell(<<"Y">>),
      year |-> FloatCell(2014), festival_year |-> IntCell(2010) ]

\* a film whose runtime cell has the unit and no number
NoMinutesFilm ==
    [ link |-> StrCell(<<"z", "f", "f", "/", "e">>), film_title |-> StrCell(<<"E", "/", "F">>),
      genre |-> StrCell(<<"D", "r", "a", "m", "a">>), country |-> StrCell(<<"U", "S", "A">>),
      runtime |-> StrCell(<<"M", "i", "n">>), languages |-> StrCell(<<"d", "e">>), subtitles |-> NaN,
      director |-> StrCell(<<"X">>), directors |-> NaN,
      year |-> FloatCell(2014), festival_year |-> IntCell(2010) ]

\* a film of two countries, as the scraper writes them: behind a comma
TwoCountryFilm ==
    [ link |-> StrCell(<<"z", "f", "f", "/", "g">>), film_title |-> StrCell(<<"G", "/", "H">>),
      genre |-> NaN, country |-> StrCell(<<",">> \o USA \o <<",", "U", "K">>),
      runtime |-> StrCell(<<"9", "0", " ", "M", "i", "n">>), languages |-> StrCell(<<"e", "n">>), subtitles |-> NaN,
      director |-> StrCell(<<"X">>), directors |-> NaN,
      year |-> IntCell(2014), festival_year |-> IntCell(2010) ]

ScrapedRows ==
    { FilmWithAltTitle, MastersTalk, SameLinkFilm, BlankCountryFilm, NoMinutesFilm,
      TwoCountryFilm }

MaxCleanRows == 2

\* the scraped columns, all of them or all but one
ColumnLists ==
    {ScrapedColumns}
    \cup {SelectSeq(ScrapedColumns, LAMBDA c : c # ScrapedColumns[j]) :
             j \in 1..Len(ScrapedColumns)}

\* a scraped row under the columns cols and the label idx
RowUnder(scraped, cols, idx) ==
    [k \in {"idx"} \cup {cols[j] : j \in 1..Len(cols)} |->
        IF k = "idx" THEN idx ELSE scraped[k]]

\* tables as read_csv gives them: row i carries the label i - 1
CleanTables ==
    UNION { { [cols |-> cols, rows |-> [i \in 1..n |-> RowUnder(r[i], cols, i - 1)],
                raised |-> FALSE] :
                r \in [1..n -> ScrapedRows], cols \in ColumnLists } :
            n \in 1..MaxCleanRows }

NoFile == [written |-> FALSE, cols |-> <<>>, rows |-> <<>>]

InitClean ==
    /\ cd_in \in CleanTables
    /\ cd_df = cd_in
    /\ cd_trace = <<>>
    /\ cd_file = NoFile
    /\ cd_pc = "split_title"

CleanIdle ==
    /\ cd_in = [cols |-> <<>>, rows |-> <<>>, raised |-> FALSE]
    /\ cd_df = [cols |-> <<>>, rows |-> <<>>, raised |-> FALSE]
    /\ cd_trace = <<>>
    /\ cd_file = NoFile
    /\ cd_pc = "idle"

\* clean_data makes the call it has reached: cleaned_df becomes what the call
\* returns, or clean_data ends with the error the call raised
Call(call, result) ==
    /\ cd_pc = call
    /\ cd_trace' = Append(cd_trace, call)
    /\ IF result.raised
       THEN cd_pc' = "failed" /\ cd_df' = cd_df
       ELSE cd_pc' = after(call) /\ cd_df' = result
    /\ UNCHANGED <<cd_in, cd_file>>
    /\ UNCHANGED notCleanVars

CallSplitTitle == Call("split_title", split_title_of(cd_df))

CallRemoveLeadingTrailingBlanks ==
    Call("remove_leading_trailing_blanks", remove_leading_trailing_blanks(cd_df))

CallGenerateDirectorValue ==
    Call("generate_director_value", generate_director_value(cd_df))

CallAddFestivalNameColumnn ==
    Call("add_festival_name_columnn", add_festival_name_columnn(cd_df))

CallRemoveListOfMovies == Call("remove_list_of_movies", remove_list_of_movies_of(cd_df))

CallDropDuplicates == Call("drop_duplicates", drop_duplicates_of(cd_df))

CallReplaceKnownValue == Call("replace_known_value", replace_known_value(cd_df))

CallCleanYearColumn == Call("clean_year_column", clean_year_column(cd_df))

CallRemoveLeadingComma == Call("remove_leading_comma", remove_leading_comma(cd_df))

CallAddCountryCount == Call("add_country_count", add_country_count(cd_df))

CallCleanRuntimeColumn == Call("clean_runtime_column", clean_runtime_column(cd_df))

CallProjection == Call("projection", projection(cd_df))

\* cleaned_df.to_csv(STAGE_FILENAME, index=False): the labels are not written
ToCsv ==
    /\ cd_pc = "to_csv"
    /\ cd_file' = [written |-> TRUE, cols |-> cd_df.cols,
                   rows |-> [i \in 1..Len(cd_df.rows) |->
                               [k \in DOMAIN cd_df.rows[i] \ {"idx"} |-> cd_df.rows[i][k]]]]
    /\ cd_pc' = "written"
    /\ UNCHANGED <<cd_in, cd_df, cd_trace>>
    /\ UNCHANGED notCleanVars

NextClean ==
    \/ CallSplitTitle
    \/ CallRemoveLeadingTrailingBlanks
    \/ CallGenerateDirectorValue
    \/ CallAddFestivalNameColumnn
    \/ CallRemoveListOfMovies
    \/ CallDropDuplicates
    \/ CallReplaceKnownValue
    \/ CallCleanYearColumn
    \/ CallRemoveLeadingComma
    \/ CallAddCountryCount
    \/ CallCleanRuntimeColumn
    \/ CallProjection
    \/ ToCsv

----------------------------------------------------------------------------
(* The cell functions of the cleaner, each called on one cell *)

\* whole numbers a numeric cell can hold: years, minutes and outliers
CellNumbers == {0, 14, 90, 500, 1929, 2014, 2021}

CellTexts ==
    TextsUpTo(MaxGarbageLen)
    \cup { <<",", "A">>, <<",", ",", "A">>, <<" ", "a", " ">>,
           <<"1", " ", "h", "r", "s", " ", "5">>, <<"9", "0", " ", "M", "i", "n">>, Spein }

CellInputs ==
    {NaN} \cup {StrCell(t) : t \in CellTexts}
    \cup {IntCell(n) : n \in CellNumbers} \cup {FloatCell(n) : n \in CellNumbers}

InitCell ==
    /\ cf_in \in CellInputs
    /\ cf_fn = "none"
    /\ cf_out = NaN
    /\ cf_pc = "src"

CellIdle ==
    /\ cf_in = NaN
    /\ cf_fn = "none"
    /\ cf_out = NaN
    /\ cf_pc = "idle"

\* the call of a cell function: it returns a cell or raises
CellCall(fn, result) ==
    /\ cf_pc = "src"
    /\ cf_fn' = fn
    /\ cf_out' = result
    /\ cf_pc' = IF result = Raised THEN "raised" ELSE "done"
    /\ UNCHANGED cf_in
    /\ UNCHANGED notCellVars

CellConvertHrToMin == CellCall("convert_hr_to_min", convert_hr_to_min(cf_in))

CellConvertMinStringToInt ==
    CellCall("convert_min_string_to_int", convert_min_string_to_int(cf_in))

\* called on what convert_min_string_to_int returns: a number or NaN
CellCheckRuntimeOutliers ==
    /\ ~isstr(cf_in)
    /\ CellCall("check_runtime_outliers", check_runtime_outliers(cf_in))

CellConvertYearToFour == CellCall("convert_year_to_four", convert_year_to_four(cf_in))

CellValidateYear == CellCall("validate_year", validate_year(cf_in))

\* called on a cell of the country column: a text or NaN
CellReplaceValue ==
    /\ ~isnum(cf_in)
    /\ CellCall("replace_value", replace_value(cf_in))

CellStripBlanks == CellCall("remove_leading_trailing_blanks", strip_blanks(cf_in))

CellLeadingComma == CellCall("remove_leading_comma", leading_comma(cf_in))

NextCell ==
    \/ CellConvertHrToMin
    \/ CellConvertMinStringToInt
    \/ CellCheckRuntimeOutliers
    \/ CellConvertYearToFour
    \/ CellValidateYear
    \/ CellReplaceValue
    \/ CellStripBlanks
    \/ CellLeadingComma

----------------------------------------------------------------------------
(* movie_scraper.check_configured_years *)

FIRST_FESTIVAL_YEAR == 2005

LAST_FESTIVAL_YEAR == 2021

\* range(FIRST_FESTIVAL_YEAR, LAST_FESTIVAL_YEAR): the last year is left out
all_available_years == FIRST_FESTIVAL_YEAR..(LAST_FESTIVAL_YEAR - 1)

\* TRUE when check_configured_years returns, FALSE when it raises
\* ScraperException
check_configured_years(years) ==
    \A i \in 1..Len(years) : years[i] \in all_available_years

MaxConfiguredYears == 2

\* years of the tests and years around both ends of the range
ConfiguredYears == {1601, 2004, 2005, 2012, 2014, 2020, 2021, 2022}

InitConfig ==
    /\ cy_years \in UNION {[1..n -> ConfiguredYears] : n \in 0..MaxConfiguredYears}
    /\ cy_pc = "src"

ConfigIdle ==
    /\ cy_years = <<>>
    /\ cy_pc = "idle"

CheckConfiguredYears ==
    /\ cy_pc = "src"
    /\ cy_pc' = IF check_configured_years(cy_years) THEN "returned" ELSE "raised"
    /\ UNCHANGED cy_years
    /\ UNCHANGED notConfigVars

NextConfig == CheckConfiguredYears

----------------------------------------------------------------------------
(* movie_scraper.navigate_to_next_page inside the pagination loop of
   scrape_zff_year_page. The driver is the environment: each call of it
   succeeds or raises one of its exceptions. *)

\* range(3): the passes of the for loop
ClickAttempts == 3

\* the for loop without the raise that follows it: the return False under
\* the raise is reached and the pagination ends quietly: a slip C23 tells
\* from the code
after_stale_gives_up_quietly(x) ==
    IF x + 1 < ClickAttempts THEN "navigate" ELSE "scraped"

\* after a pass x (0, 1, 2) that met StaleElementReferenceException: the next
\* pass, or, the loop being over with success False, the ScraperException
after_stale(x) ==
    IF x + 1 < ClickAttempts THEN "navigate" ELSE "raised"

MaxPages == 3

MaxMoviesPerPage == 2

InitPage ==
    /\ pg_pc = "loop"
    /\ pg_page_number = 0
    /\ pg_next_page = TRUE
    /\ pg_movie_list = 0
    /\ pg_attempts = <<>>

PageIdle ==
    /\ pg_pc = "idle"
    /\ pg_page_number = 0
    /\ pg_next_page = FALSE
    /\ pg_movie_list = 0
    /\ pg_attempts = <<>>

\* one turn of the while loop up to the call of navigate_to_next_page: the page
\* is rendered and its movies join movie_list
ScrapeListPage ==
    /\ pg_pc = "loop"
    /\ pg_next_page
    /\ pg_page_number < MaxPages
    /\ pg_page_number' = pg_page_number + 1
    /\ \E found \in 1..MaxMoviesPerPage : pg_movie_list' = pg_movie_list + found
    /\ pg_attempts' = <<>>
    /\ pg_pc' = "navigate"
    /\ UNCHANGED pg_next_page
    /\ UNCHANGED notPageVars

\* find_element for li.movie raises NoSuchElementException, outside any try
ListPageNotRendered ==
    /\ pg_pc = "loop"
    /\ pg_next_page
    /\ pg_page_number < MaxPages
    /\ pg_page_number' = pg_page_number + 1
    /\ pg_attempts' = <<>>
    /\ pg_pc' = "error"
    /\ UNCHANGED <<pg_next_page, pg_movie_list>>
    /\ UNCHANGED notPageVars

\* a pass of the for loop finds the next button and clicks it
ClickNext ==
    /\ pg_pc = "navigate"
    /\ Len(pg_attempts) < ClickAttempts
    /\ pg_attempts' = Append(pg_attempts, "clicked")
    /\ pg_next_page' = TRUE
    /\ pg_pc' = "loop"       \* success = True, break, return True
    /\ UNCHANGED <<pg_page_number, pg_movie_list>>
    /\ UNCHANGED notPageVars

\* a pass of the for loop meets StaleElementReferenceException
StaleElement ==
    /\ pg_pc = "navigate"
    /\ Len(pg_attempts) < ClickAttempts
    /\ pg_attempts' = Append(pg_attempts, "stale")
    /\ pg_pc' = after_stale(Len(pg_attempts))
    /\ UNCHANGED <<pg_page_number, pg_next_page, pg_movie_list>>
    /\ UNCHANGED notPageVars

\* a pass of the for loop finds no next button: NoSuchElementException, caught
\* by the outer try, return False, and the while loop ends
NoNextButton ==
    /\ pg_pc = "navigate"
    /\ Len(pg_attempts) < ClickAttempts
    /\ pg_attempts' = Append(pg_attempts, "no_next_button")
    /\ pg_next_page' = FALSE
    /\ pg_pc' = "scraped"
    /\ UNCHANGED <<pg_page_number, pg_movie_list>>
    /\ UNCHANGED notPageVars

\* a pass of the for loop meets any other exception of the driver (the button
\* is covered, the session is gone): neither except clause catches it
OtherDriverError ==
    /\ pg_pc = "navigate"
    /\ Len(pg_attempts) < ClickAttempts
    /\ pg_attempts' = Append(pg_attempts, "other_error")
    /\ pg_pc' = "error"
    /\ UNCHANGED <<pg_page_number, pg_next_page, pg_movie_list>>
    /\ UNCHANGED notPageVars

NextPage ==
    \/ ScrapeListPage
    \/ ListPageNotRendered
    \/ ClickNext
    \/ StaleElement
    \/ NoNextButton
    \/ OtherDriverError

----------------------------------------------------------------------------
(* add_dirt: add_duplicate_rows, then add_runtime_outliers on its result *)

\* generate_outlier; outlier_value: what randint(800, 10000) returned
generate_outlier(cell_value, outlier_value) ==
    IF Contains(cell_value.s, <<"h", "r">>) THEN cell_value
    ELSE StrCell(StrOfInt(outlier_value) \o <<"M", "i", "n">>)

\* add_runtime_outliers; sample: the positions DataFrame.sample drew among the
\* rows of known runtime, outliers: the random value of each. new_df carries
\* the labels of the sampled rows, and DataFrame.update reindexes it like the
\* table: reindexing raises ValueError when new_df holds a label twice, and
\* otherwise hands new_df's value to every row of the table that carries the
\* label. (A new_df with the table's whole index is not reindexed; ratios
\* under 0.8 never draw that of a table with duplicates.)
add_runtime_outliers(original_df, sample, outliers) ==
    LET labels == LabelsOf(original_df, sample)
        new_df == [j \in 1..Len(sample) |->
                      generate_outlier(original_df[sample[j]].runtime, outliers[j])]
        at(label) == CHOOSE j \in 1..Len(labels) : labels[j] = label
    IN  IF \E a, b \in 1..Len(labels) : a # b /\ labels[a] = labels[b]
        THEN [raised |-> TRUE, rows |-> original_df]
        ELSE [raised |-> FALSE,
              rows |-> [i \in 1..Len(original_df) |->
                          IF IsSampled(original_df[i].idx, labels)
                          THEN [original_df[i] EXCEPT
                                   !.runtime = new_df[at(original_df[i].idx)]]
                          ELSE original_df[i]]]

MaxAddDirtRows == 2

\* ratios in hundredths, large enough to draw rows of a small table
OutlierRatioPercents == {1, 40, 50}

\* the ends of randint(800, 10000)
RandintEnds == {800, 10000}

AddDirtRuntimes ==
    {NaN, StrCell(StrOfInt(90) \o MinText), StrCell(<<"1", " ", "h", "r", "s", " ", "3", "0">>)}

\* tables as read_csv gives them: row i carries the label i - 1
AddDirtTables ==
    UNION { { [i \in 1..n |-> [idx |-> i - 1, runtime |-> r[i]]] :
                r \in [1..n -> AddDirtRuntimes] } :
            n \in 1..MaxAddDirtRows }

InitAddDirt ==
    /\ ad_movies_df \in AddDirtTables
    /\ ad_before = <<>>
    /\ ad_sample = <<>>
    /\ ad_pc = "duplicates"

AddDirtIdle ==
    /\ ad_movies_df = <<>>
    /\ ad_before = <<>>
    /\ ad_sample = <<>>
    /\ ad_pc = "idle"

\* movies_df = add_duplicate_rows(movies_df, ratio)
AddDirtDuplicateRows ==
    /\ ad_pc = "duplicates"
    /\ \E ratio \in RatioPercents :
       \E sample \in SamplesInOrder(Len(ad_movies_df),
                                    sample_size(ratio, Len(ad_movies_df))) :
           ad_movies_df' = add_duplicate_rows(ad_movies_df, sample)
    /\ ad_pc' = "outliers"
    /\ UNCHANGED <<ad_before, ad_sample>>
    /\ UNCHANGED notAddDirtVars

\* movies_df = add_runtime_outliers(movies_df, ratio)
AddDirtRuntimeOutliers ==
    /\ ad_pc = "outliers"
    /\ LET known == {i \in 1..Len(ad_movies_df) : ~isna(ad_movies_df[i].runtime)}
       IN  \E ratio \in OutlierRatioPercents :
           \E sample \in SamplesInOrder(Len(ad_movies_df),
                                        sample_size(ratio, Cardinality(known))) :
           \E outliers \in [1..Len(sample) -> RandintEnds] :
               /\ \A j \in 1..Len(sample) : sample[j] \in known
               /\ LET result == add_runtime_outliers(ad_movies_df, sample, outliers)
                  IN  /\ ad_movies_df' = result.rows
                      /\ ad_pc' = IF result.raised THEN "raised" ELSE "to_csv"
               /\ ad_sample' = sample
    /\ ad_before' = ad_movies_df
    /\ UNCHANGED notAddDirtVars

NextAddDirt == AddDirtDuplicateRows \/ AddDirtRuntimeOutliers

----------------------------------------------------------------------------
(* Specifications: one column or table at a time, the others idle *)

\* the states add_dirt and clean_data start from, for each column or table
StartRuntime ==
    /\ YearIdle /\ CountryIdle /\ DirectorIdle /\ DedupIdle /\ DirtIdle /\
       SplitIdle /\ RemoveIdle /\ CleanIdle /\ CellIdle /\ ConfigIdle /\
       PageIdle /\ AddDirtIdle
    /\ InitRuntime

StartYear ==
    /\ RuntimeIdle /\ CountryIdle /\ DirectorIdle /\ DedupIdle /\ DirtIdle /\
       SplitIdle /\ RemoveIdle /\ CleanIdle /\ CellIdle /\ ConfigIdle /\
       PageIdle /\ AddDirtIdle
    /\ InitYear

StartCountry ==
    /\ RuntimeIdle /\ YearIdle /\ DirectorIdle /\ DedupIdle /\ DirtIdle /\
       SplitIdle /\ RemoveIdle /\ CleanIdle /\ CellIdle /\ ConfigIdle /\
       PageIdle /\ AddDirtIdle
    /\ InitCountry

StartDirector ==
    /\ RuntimeIdle /\ YearIdle /\ CountryIdle /\ DedupIdle /\ DirtIdle /\
       SplitIdle /\ RemoveIdle /\ CleanIdle /\ CellIdle /\ ConfigIdle /\
       PageIdle /\ AddDirtIdle
    /\ InitDirector

StartDedup ==
    /\ RuntimeIdle /\ YearIdle /\ CountryIdle /\ DirectorIdle /\ DirtIdle /\
       SplitIdle /\ RemoveIdle /\ CleanIdle /\ CellIdle /\ ConfigIdle /\
       PageIdle /\ AddDirtIdle
    /\ InitDedup

StartDirt ==
    /\ RuntimeIdle /\ YearIdle /\ CountryIdle /\ DirectorIdle /\ DedupIdle /\
       SplitIdle /\ RemoveIdle /\ CleanIdle /\ CellIdle /\ ConfigIdle /\
       PageIdle /\ AddDirtIdle
    /\ InitDirt

StartSplit ==
    /\ RuntimeIdle /\ YearIdle /\ CountryIdle /\ DirectorIdle /\ DedupIdle /\
       DirtIdle /\ RemoveIdle /\ CleanIdle /\ CellIdle /\ ConfigIdle /\
       PageIdle /\ AddDirtIdle
    /\ InitSplit

StartRemove ==
    /\ RuntimeIdle /\ YearIdle /\ CountryIdle /\ DirectorIdle /\ DedupIdle /\
       DirtIdle /\ SplitIdle /\ CleanIdle /\ CellIdle /\ ConfigIdle /\
       PageIdle /\ AddDirtIdle
    /\ InitRemove

StartClean ==
    /\ RuntimeIdle /\ YearIdle /\ CountryIdle /\ DirectorIdle /\ DedupIdle /\
       DirtIdle /\ SplitIdle /\ RemoveIdle /\ CellIdle /\ ConfigIdle /\
       PageIdle /\ AddDirtIdle
    /\ InitClean

StartCell ==
    /\ RuntimeIdle /\ YearIdle /\ CountryIdle /\ DirectorIdle /\ DedupIdle /\
       DirtIdle /\ SplitIdle /\ RemoveIdle /\ CleanIdle /\ ConfigIdle /\
       PageIdle /\ AddDirtIdle
    /\ InitCell

StartConfig ==
    /\ RuntimeIdle /\ YearIdle /\ CountryIdle /\ DirectorIdle /\ DedupIdle /\
       DirtIdle /\ SplitIdle /\ RemoveIdle /\ CleanIdle /\ CellIdle /\
       PageIdle /\ AddDirtIdle
    /\ InitConfig

StartPage ==
    /\ RuntimeIdle /\ YearIdle /\ CountryIdle /\ DirectorIdle /\ DedupIdle /\
       DirtIdle /\ SplitIdle /\ RemoveIdle /\ CleanIdle /\ CellIdle /\
       ConfigIdle /\ AddDirtIdle
    /\ InitPage

StartAddDirt ==
    /\ RuntimeIdle /\ YearIdle /\ CountryIdle /\ DirectorIdle /\ DedupIdle /\
       DirtIdle /\ SplitIdle /\ RemoveIdle /\ CleanIdle /\ CellIdle /\
       ConfigIdle /\ PageIdle
    /\ InitAddDirt

SpecRuntime == StartRuntime /\ [][NextRuntime]_vars

SpecYear == StartYear /\ [][NextYear]_vars

SpecCountry == StartCountry /\ [][NextCountry]_vars

SpecDirector == StartDirector /\ [][NextDirector]_vars

SpecDedup == StartDedup /\ [][NextDedup]_vars

SpecDirt == StartDirt /\ [][NextDirt]_vars

SpecSplit == StartSplit /\ [][NextSplit]_vars

SpecRemove == StartRemove /\ [][NextRemove]_vars

SpecClean == StartClean /\ [][NextClean]_vars

SpecCell == StartCell /\ [][NextCell]_vars

SpecConfig == StartConfig /\ [][NextConfig]_vars

SpecPage == StartPage /\ [][NextPage]_vars

SpecAddDirt == StartAddDirt /\ [][NextAddDirt]_vars

Init == StartRuntime \/ StartYear \/ StartCountry \/ StartDirector \/
    StartDedup \/ StartDirt \/ StartSplit \/ StartRemove \/ StartClean \/
    StartCell \/ StartConfig \/ StartPage \/ StartAddDirt

Next == NextRuntime \/ NextYear \/ NextCountry \/ NextDirector \/
    NextDedup \/ NextDirt \/ NextSplit \/ NextRemove \/ NextClean \/
    NextCell \/ NextConfig \/ NextPage \/ NextAddDirt

Spec == Init /\ [][Next]_vars

----------------------------------------------------------------------------
(* Claims about the runtime cell *)

RuntimeFinished == rt_pc \in {"done", "raised"}

\* C1: for every m in RUNTIME_MIN..RUNTIME_MAX, the cell '<m> Min' rendered by
\* convert_to_hr and then cleaned by convert_hr_to_min,
\* convert_min_string_to_int and check_runtime_outliers is exactly the int m.
C1_RuntimeRoundTrip ==
    ( /\ RuntimeFinished
      /\ rt_hr
      /\ rt_in.shape = "min"
      /\ rt_in.unit = MinText
      /\ rt_in.a \in RUNTIME_MIN..RUNTIME_MAX )
    => (rt_pc = "done" /\ rt_cell = IntCell(rt_in.a))

\* '130 Min' went through convert_to_hr ('2 hrs 10') and came back as 130
C1_Witness ==
    /\ rt_pc = "done"
    /\ rt_hr
    /\ rt_in = RtIn("min", 130, 0, MinText)
    /\ rt_cell = IntCell(130)

\* C7: a cell of the shape '<n> Min' (unit in any case, with or without the
\* space), '<h> hrs <m>' or a bare integer, cleaned by clean_runtime_column,
\* is its total minutes t when RUNTIME_MIN <= t <= RUNTIME_MAX and unknown
\* when t is outside that range.
C7_CleanRuntime ==
    ( /\ RuntimeFinished
      /\ ~rt_hr
      /\ rt_in.shape \in {"min", "hrs", "bare", "int", "float"} )
    => /\ rt_pc = "done"
       /\ rt_cell = IF TotalMinutes(rt_in) \in RUNTIME_MIN..RUNTIME_MAX
                     THEN IntCell(TotalMinutes(rt_in))
                     ELSE NaN

\* '1 hrs 61' is cleaned to 121, and '5000Min' to unknown
C7_Witness ==
    /\ rt_pc = "done"
    /\ ~rt_hr
    /\ \/ rt_in = RtIn("hrs", 1, 61, HrsText) /\ rt_cell = IntCell(121)
       \/ rt_in = RtIn("min", 5000, 0, <<"M", "i", "n">>) /\ rt_cell = NaN

\* C8: the runtime cleaning chain never raises on a text cell: a text of none
\* of the three accepted shapes, such as 'abc Min', '1.5 Min' or 'Min',
\* is cleaned to unknown.
C8_GarbageRuntimeIsUnknown ==
    (RuntimeFinished /\ ~rt_hr /\ rt_in.shape = "other")
    => (rt_pc = "done" /\ rt_cell = NaN)

----------------------------------------------------------------------------
(* Claims about the year cell *)

\* what the claim expects of convert_year_to_four on the number y
ExpandedYear(y) == IF y > 99 THEN y ELSE IF y >= 20 THEN 1900 + y ELSE 2000 + y

YearFinished == yr_pc \in {"done", "raised"}

\* C3: every year y in MIN_YEAR..MAX_YEAR that add_reduced_year_format cut to
\* y mod 100 is y again after clean_year_column.
C3_YearShorthandRecovered ==
    ( /\ YearFinished
      /\ yr_short
      /\ yr_in.shape \in {"int", "float"}
      /\ yr_in.y \in MIN_YEAR..MAX_YEAR )
    => (yr_pc = "done" /\ yr_cell = IntCell(yr_in.y))

\* C9: after clean_year_column a year cell is unknown or an integer within
\* MIN_YEAR..MAX_YEAR.
C9_CleanYearIsValid ==
    yr_pc = "done"
    => (isna(yr_cell) \/ (yr_cell.kind = "int" /\ yr_cell.n \in MIN_YEAR..MAX_YEAR))

----------------------------------------------------------------------------
(* Claims about the country cell *)

\* C4: a country cell that contains neither 'Spein' nor 'USAA', misspelled by
\* add_dirt ('Spain' to 'Spein' and/or 'USA' to 'USAA', in that order), is
\* exactly itself again after replace_value.
C4_MisspellingRecovered ==
    ( /\ co_pc = "replaced"
      /\ co_spein \/ co_usaa
      /\ ~Contains(co_in.s, Spein)
      /\ ~Contains(co_in.s, USAA) )
    => co_cell = co_in

\* 'USASpain' was misspelled twice ('USAASpein') and is 'USASpain' again
C4_Witness ==
    /\ co_pc = "replaced"
    /\ co_spein
    /\ co_usaa
    /\ co_in = StrCell(USA \o Spain)
    /\ co_cell = co_in

\* the number of commas of a text
CommaCount(s) == Cardinality({i \in 1..Len(s) : s[i] = ","})

\* C6: count_countries is 0 for an unknown cell and for the empty text, and
\* the number of commas plus one for any other text.
C6_CountCountries ==
    co_pc = "counted"
    => co_count = IF isna(co_cell) \/ co_cell.s = <<>>
                  THEN 0
                  ELSE CommaCount(co_cell.s) + 1

----------------------------------------------------------------------------
(* Claims about the director cell *)

\* C5: concat_director_values gives 'A,B' for director A and directors B, B
\* for an unknown director, A for unknown directors, and the empty text when
\* both are unknown.
C5_DirectorTruthTable ==
    dr_pc = "done"
    => dr_row.director =
         CASE ~isna(dr_in.director) /\ ~isna(dr_in.directors) ->
                  StrCell(dr_in.director.s \o <<",">> \o dr_in.directors.s)
           [] isna(dr_in.director) /\ ~isna(dr_in.directors) -> dr_in.directors
           [] ~isna(dr_in.director) /\ isna(dr_in.directors) -> dr_in.director
           [] OTHER -> StrCell(<<>>)

----------------------------------------------------------------------------
(* Claims about drop_duplicates *)

\* the positions of the rows that are the first with their key
FirstOccurrences(table, colnames) ==
    {i \in 1..Len(table) :
        \A j \in 1..(i - 1) : KeyOf(table[j], colnames) # KeyOf(table[i], colnames)}

\* C10: drop_duplicates returns exactly the rows that are the first
\* occurrence of their key, in their original order: no two rows of the result
\* share a key, every key of the input appears in it, and rows that differ in
\* a key column are both kept.
C10_DropDuplicatesKeepsFirst ==
    dd_pc = "done"
    => LET firsts == FirstOccurrences(dd_table, dd_keys)
       IN  /\ Len(dd_out) = Cardinality(firsts)
           /\ \A i \in firsts :
                  dd_out[Cardinality({j \in firsts : j <= i})] = dd_table[i]
           /\ \A a, b \in 1..Len(dd_out) :
                  a # b => KeyOf(dd_out[a], dd_keys) # KeyOf(dd_out[b], dd_keys)
           /\ \A i \in 1..Len(dd_table) :
                  \E a \in 1..Len(dd_out) :
                      KeyOf(dd_out[a], dd_keys) = KeyOf(dd_table[i], dd_keys)

\* three rows with one link and festival years 2010, 2011, 2010: on
\* (link, festival_year) the third is dropped and the first two are kept
C10_Witness ==
    /\ dd_pc = "done"
    /\ dd_keys = {"link", "festival_year"}
    /\ Len(dd_table) = 3
    /\ \A i \in 1..3 : dd_table[i].link = "zff/a"
    /\ dd_table[1].festival_year = 2010
    /\ dd_table[2].festival_year = 2011
    /\ dd_table[3].festival_year = 2010
    /\ dd_out = SubSeq(dd_table, 1, 2)

\* C11: drop_duplicates is idempotent: called on the table it returned, with
\* the same key columns, it returns that table, for every table and every
\* list of key columns.
C11_DropDuplicatesIdempotent == dd_pc = "again" => dd_out = dd_table

\* the second call is made on a table the first call shortened by two rows
C11_Witness ==
    /\ dd_pc = "again"
    /\ dd_keys = {"link"}
    /\ Len(dd_table) = 2
    /\ dd_table[1].idx = 0 /\ dd_table[1].link = "zff/a"
    /\ dd_table[2].idx = 2 /\ dd_table[2].link = "nan"
    /\ dd_out = dd_table

----------------------------------------------------------------------------
(* Claims about the sampled transforms of add_dirt *)

\* num / den rounded to the nearest integer, a half going to the even side
NearestInteger(num, den) ==
    CHOOSE k \in 0..num :
        /\ 2 * den * k - 2 * num \in (0 - den)..den
        /\ (2 * den * k - 2 * num \in {0 - den, den}) => k % 2 = 0

\* two rows with the same cells, whatever their labels
SameCells(a, b) == a.country = b.country /\ a.runtime = b.runtime

\* C12: add_duplicate_rows with ratio r on a table of N rows returns exactly
\* N + 2 * round(r * N) rows: the N original rows, unchanged and first,
\* followed by two copies of each of the round(r * N) sampled rows.
C12_AddDuplicateRows ==
    dt_pc = "duplicated"
    => LET N == Len(dt_table)
           k == NearestInteger(dt_ratio * N, 100)
       IN  /\ Len(dt_out) = N + 2 * k
           /\ SubSeq(dt_out, 1, N) = dt_table
           /\ Len(dt_sample) = k
           /\ \A a, b \in 1..k : a # b => dt_sample[a] # dt_sample[b]
           /\ \A i \in 1..k :
                  \E j \in 1..N :
                      /\ dt_table[j].idx = dt_sample[i]
                      /\ SameCells(dt_out[N + i], dt_table[j])
                      /\ SameCells(dt_out[N + k + i], dt_table[j])

\* three rows at ratio 0.5: round(1.5) = 2 rows are sampled, the last one
\* first, and the table grows to 3 + 4 rows
C12_Witness ==
    /\ dt_pc = "duplicated"
    /\ dt_ratio = 50
    /\ Len(dt_table) = 3
    /\ dt_sample = <<2, 0>>
    /\ Len(dt_out) = 7
    /\ dt_table[1].country # dt_table[3].country
    /\ SameCells(dt_out[4], dt_table[3]) /\ SameCells(dt_out[6], dt_table[3])
    /\ SameCells(dt_out[5], dt_table[1]) /\ SameCells(dt_out[7], dt_table[1])

\* C13: change_runtime_to_hour_min leaves every unsampled row untouched and
\* present: the returned table has the same rows (count, order) as the input,
\* and a row whose runtime is unknown is still in it, unchanged.
C13_ChangeRuntimeKeepsRows ==
    dt_pc = "hr_changed"
    => /\ Len(dt_out) = Len(dt_table)
       /\ \A i \in 1..Len(dt_table) :
              /\ dt_out[i].idx = dt_table[i].idx
              /\ ~IsSampled(dt_table[i].idx, dt_sample) => dt_out[i] = dt_table[i]

\* C14: add_misspelling_to_column with ratio r changes exactly round(r * E)
\* cells, E being the number of cells of the column that contain real_value;
\* in each changed cell every occurrence of real_value has become
\* misspelled_value; every other cell, the row count and the row order are
\* unchanged.
C14_AddMisspelling ==
    dt_pc = "misspelled"
    => LET real_value == dt_term[1]
           misspelled_value == dt_term[2]
           E == Cardinality({i \in 1..Len(dt_table) :
                    /\ isstr(dt_table[i].country)
                    /\ Contains(dt_table[i].country.s, real_value)})
           changed == {i \in 1..Len(dt_out) : dt_out[i] # dt_table[i]}
       IN  /\ Len(dt_out) = Len(dt_table)
           /\ Cardinality(changed) = NearestInteger(dt_ratio * E, 100)
           /\ \A i \in changed :
                  /\ dt_out[i].idx = dt_table[i].idx
                  /\ dt_out[i].runtime = dt_table[i].runtime
                  /\ isstr(dt_out[i].country)
                  /\ Split(dt_out[i].country.s, misspelled_value)
                         = Split(dt_table[i].country.s, real_value)
                  /\ Len(Split(dt_table[i].country.s, real_value)) > 1

\* 'Spain' is in two of three cells; at ratio 0.5 one of them is sampled and
\* both of its occurrences become 'Spein'
C14_Witness ==
    /\ dt_pc = "misspelled"
    /\ dt_ratio = 50
    /\ dt_term = <<Spain, Spein>>
    /\ Len(dt_table) = 3
    /\ dt_table[1].country = StrCell(Spain \o <<",">> \o USA \o <<",">> \o Spain)
    /\ dt_table[2].country = StrCell(USA)
    /\ dt_table[3].country = dt_table[1].country
    /\ dt_sample = <<2>>
    /\ dt_out[3].country = StrCell(Spein \o <<",">> \o USA \o <<",">> \o Spein)
    /\ dt_out[1] = dt_table[1]
    /\ dt_out[2] = dt_table[2]

----------------------------------------------------------------------------
(* Claims about split_title *)

\* the positions of "/" in a text
SlashesOf(s) == {i \in 1..Len(s) : s[i] = "/"}

FirstSlash(s) == CHOOSE i \in SlashesOf(s) : \A j \in SlashesOf(s) : i <= j

\* C15: split_title returns normally on every table of titles, also one in
\* which no title contains '/'; for every row, film_title becomes the text
\* before the first '/' of the title and alt_title the text after it (later
\* slashes kept), or unknown when the title has no '/'.
C15_SplitTitle ==
    st_pc \in {"done", "raised"}
    => /\ st_pc = "done"
       /\ Len(st_out) = Len(st_table)
       /\ \A i \in 1..Len(st_table) :
              isstr(st_table[i])
              => LET title == st_table[i].s
                 IN  IF SlashesOf(title) = {}
                     THEN /\ st_out[i].film_title = StrCell(title)
                          /\ isna(st_out[i].alt_title)
                     ELSE /\ st_out[i].film_title
                                = StrCell(SubSeq(title, 1, FirstSlash(title) - 1))
                          /\ st_out[i].alt_title
                                = StrCell(SubSeq(title, FirstSlash(title) + 1, Len(title)))

----------------------------------------------------------------------------
(* Claims about remove_list_of_movies *)

\* the denylist with 'Kurzfilmprogramm:' and 'Short Cuts vol.' as two entries
DenylistEntries ==
    ({films_to_drop[k] : k \in 1..Len(films_to_drop)}
        \ {KurzfilmprogrammColon \o ShortCutsVol})
    \cup {KurzfilmprogrammColon, ShortCutsVol}

\* C16: remove_list_of_movies returns exactly the rows whose film_title does
\* not start (case-sensitively) with any denylist entry, in their original
\* order, 'Kurzfilmprogramm:' and 'Short Cuts vol.' each being an entry of
\* its own: a title starting with 'Short Cuts vol.' is removed.
C16_RemoveListOfMovies ==
    rm_pc = "done"
    => rm_out = SelectSeq(rm_table,
                          LAMBDA row : \A entry \in DenylistEntries :
                                           ~StartsWith(row.film_title, entry))

----------------------------------------------------------------------------
(* Claims about clean_data *)

\* the order of the transforms as the specification lists it
TransformOrder ==
    << "split_title", "remove_leading_trailing_blanks", "generate_director_value",
       "add_festival_name_columnn", "remove_list_of_movies", "drop_duplicates",
       "replace_known_value", "clean_year_column", "remove_leading_comma",
       "add_country_count", "clean_runtime_column", "projection" >>

\* the position of a transform in a sequence of calls, 0 when it is not there
PositionIn(calls, call) ==
    IF \E i \in 1..Len(calls) : calls[i] = call
    THEN CHOOSE i \in 1..Len(calls) : calls[i] = call
    ELSE 0

\* C17: clean_data applies its transforms in one fixed order on every run:
\* the calls made so far are always the first ones of the order split_title,
\* remove_leading_trailing_blanks, generate_director_value,
\* add_festival_name_columnn, remove_list_of_movies, drop_duplicates,
\* replace_known_value, clean_year_column, remove_leading_comma,
\* add_country_count, clean_runtime_column, projection, and a run that writes
\* the staged file has made them all; so blanks are stripped before the
\* denylist is matched and the leading comma before the countries are counted.
C17_TransformOrder ==
    /\ Len(cd_trace) <= Len(TransformOrder)
    /\ cd_trace = SubSeq(TransformOrder, 1, Len(cd_trace))
    /\ cd_pc \in {"to_csv", "written"} => cd_trace = TransformOrder
    /\ PositionIn(cd_trace, "remove_list_of_movies") > 0
          => PositionIn(cd_trace, "remove_leading_trailing_blanks") \in
                 1..(PositionIn(cd_trace, "remove_list_of_movies") - 1)
    /\ PositionIn(cd_trace, "add_country_count") > 0
          => PositionIn(cd_trace, "remove_leading_comma") \in
                 1..(PositionIn(cd_trace, "add_country_count") - 1)

\* the film and the festival talk were read; the file is written after the
\* twelve calls: the talk, its title stripped of the blank, is gone, and the
\* film's ',USA' is counted as one country
C17_Witness ==
    /\ cd_pc = "written"
    /\ cd_trace = TransformOrder
    /\ cd_in.cols = ScrapedColumns
    /\ Len(cd_in.rows) = 2
    /\ cd_in.rows[1].film_title = StrCell(<<" ", "Z", "F", "F", " ", "M", "a", "s", "t", "e", "r", "s", ":", " ", "A">>)
    /\ cd_in.rows[2].country = StrCell(<<",", "U", "S", "A">>)
    /\ Len(cd_file.rows) = 1
    /\ cd_file.rows[1].film_title = StrCell(<<"A">>)
    /\ cd_file.rows[1].country = StrCell(USA)
    /\ cd_file.rows[1].country_count = IntCell(1)

\* the columns of COLN_NAMES_TO_INCLUDE that no transform creates
ColumnsNotCreated ==
    {COLN_NAMES_TO_INCLUDE[j] : j \in 1..Len(COLN_NAMES_TO_INCLUDE)}
        \ {"alt_title", "festival_name", "country_count"}

\* C18: the table clean_data writes has exactly the columns of
\* COLN_NAMES_TO_INCLUDE, in that order; when a column of that list that no
\* transform creates is absent from the input, clean_data fails with an error
\* and writes no staged file.
C18_StagedColumns ==
    /\ cd_file.written
          => /\ cd_file.cols = COLN_NAMES_TO_INCLUDE
             /\ \A i \in 1..Len(cd_file.rows) :
                    DOMAIN cd_file.rows[i]
                        = {COLN_NAMES_TO_INCLUDE[j] : j \in 1..Len(COLN_NAMES_TO_INCLUDE)}
    /\ (cd_pc # "idle" /\ \E c \in ColumnsNotCreated : ~HasCol(cd_in, c))
          => /\ ~cd_file.written
             /\ cd_pc \notin {"to_csv", "written"}
             /\ cd_trace = TransformOrder => cd_pc = "failed"

\* the input has no languages column: the eleven transforms run and the
\* projection raises, with no file written
C18_Witness ==
    /\ cd_pc = "failed"
    /\ ~HasCol(cd_in, "languages")
    /\ HasCol(cd_in, "link")
    /\ cd_trace = TransformOrder
    /\ ~cd_file.written

----------------------------------------------------------------------------
(* Claims about the cell functions *)

UnknownPropagating ==
    { "convert_hr_to_min", "convert_min_string_to_int", "check_runtime_outliers",
      "convert_year_to_four", "validate_year", "replace_value",
      "remove_leading_trailing_blanks", "remove_leading_comma" }

\* C19: unknown propagates: each of convert_hr_to_min,
\* convert_min_string_to_int, check_runtime_outliers, convert_year_to_four,
\* validate_year, replace_value and the cell functions of
\* remove_leading_trailing_blanks and remove_leading_comma, given an unknown
\* cell, returns unknown and does not raise.
C19_UnknownPropagates ==
    (cf_pc \in {"done", "raised"} /\ isna(cf_in) /\ cf_fn \in UnknownPropagating)
    => (cf_pc = "done" /\ isna(cf_out))

\* validate_year was called on the unknown cell and returned it
C19_Witness ==
    /\ cf_pc = "done"
    /\ cf_fn = "validate_year"
    /\ cf_in = NaN
    /\ cf_out = NaN

----------------------------------------------------------------------------
(* Claims about check_configured_years *)

\* C20: check_configured_years returns normally when every configured year
\* is between FIRST_FESTIVAL_YEAR and LAST_FESTIVAL_YEAR, 2005 and 2021, both
\* named as available, and raises ScraperException when at least one is not.
C20_CheckConfiguredYears ==
    cy_pc \in {"returned", "raised"}
    => (cy_pc = "returned"
          <=> \A i \in 1..Len(cy_years) :
                  cy_years[i] \in FIRST_FESTIVAL_YEAR..LAST_FESTIVAL_YEAR)

----------------------------------------------------------------------------
(* Claims about remove_leading_comma and validate_year on one cell *)

\* C21: remove_leading_comma never raises on a text or unknown cell: a text
\* whose first character is a comma loses exactly that character, and an
\* unknown cell, the empty text and any other text are returned unchanged.
C21_RemoveLeadingComma ==
    ( /\ cf_fn = "remove_leading_comma"
      /\ cf_pc \in {"done", "raised"}
      /\ isna(cf_in) \/ isstr(cf_in) )
    => /\ cf_pc = "done"
       /\ cf_out = IF isstr(cf_in) /\ cf_in.s # <<>> /\ Head(cf_in.s) = ","
                   THEN StrCell(Tail(cf_in.s))
                   ELSE cf_in

----------------------------------------------------------------------------
(* Claims about navigate_to_next_page *)

\* the passes of the last call before its last one
EarlierAttempts == {pg_attempts[i] : i \in 1..(Len(pg_attempts) - 1)}

\* C23: a call of navigate_to_next_page makes at most 3 click attempts; it
\* returns True at the first attempt that clicks, raises ScraperException
\* exactly when 3 attempts met a stale element, and returns False without
\* raising when an attempt finds no next button, which ends the pagination.
C23_NavigateToNextPage ==
    /\ Len(pg_attempts) <= 3
    /\ \A i \in 1..Len(pg_attempts) :
          pg_attempts[i] = "clicked"
          => (i = Len(pg_attempts) /\ pg_pc = "loop" /\ pg_next_page)
    /\ pg_pc = "raised" <=> pg_attempts = <<"stale", "stale", "stale">>
    /\ \A i \in 1..Len(pg_attempts) :
          pg_attempts[i] = "no_next_button"
          => (i = Len(pg_attempts) /\ pg_pc = "scraped" /\ ~pg_next_page)
    /\ pg_pc = "scraped"
       => (pg_attempts # <<>> /\ pg_attempts[Len(pg_attempts)] = "no_next_button")
    /\ pg_pc \in {"loop", "scraped"} => EarlierAttempts \subseteq {"stale"}

\* the second page's call met two stale elements and clicked at the third
\* attempt
C23_Witness ==
    /\ pg_pc = "loop"
    /\ pg_page_number = 2
    /\ pg_next_page
    /\ pg_attempts = <<"stale", "stale", "clicked">>

----------------------------------------------------------------------------
(* Claims about country_count in clean_data *)

\* the comma-separated tokens of a country cell: none when it is unknown
TokensOf(country) == IF isna(country) THEN 0 ELSE CommaCount(country.s) + 1

\* C24: from add_country_count on, through clean_runtime_column, the
\* projection and the written file, every row's country_count is the number
\* of comma-separated tokens of that row's country (0 when unknown); the
\* leading comma is gone before the count.
C24_CountryCountMatches ==
    /\ (HasCol(cd_df, "country_count") /\ HasCol(cd_df, "country"))
          => \A i \in 1..Len(cd_df.rows) :
                 /\ cd_df.rows[i].country_count = IntCell(TokensOf(cd_df.rows[i].country))
                 /\ isstr(cd_df.rows[i].country) /\ cd_df.rows[i].country.s # <<>>
                       => Head(cd_df.rows[i].country.s) # ","
    /\ cd_file.written
          => \A i \in 1..Len(cd_file.rows) :
                 cd_file.rows[i].country_count = IntCell(TokensOf(cd_file.rows[i].country))

\* ',USA,UK' was read; the file holds 'USA,UK' with a count of 2 beside a row
\* of unknown country with a count of 0
C24_Witness ==
    /\ cd_pc = "written"
    /\ Len(cd_in.rows) = 2
    /\ cd_in.rows[1].country = StrCell(<<",">> \o USA \o <<",", "U", "K">>)
    /\ Len(cd_file.rows) = 2
    /\ cd_file.rows[1].country = StrCell(USA \o <<",", "U", "K">>)
    /\ cd_file.rows[1].country_count = IntCell(2)
    /\ isna(cd_file.rows[2].country)
    /\ cd_file.rows[2].country_count = IntCell(0)

----------------------------------------------------------------------------
(* Claims about what replace_value leaves behind *)

\* TRUE when the text holds a key of KNOWN_TERMS
HasKnownTerm(s) == \E k \in 1..Len(KNOWN_TERMS) : Contains(s, KNOWN_TERMS[k][1])

\* replace_value has run on the text cell co_in as it was read
ReplacedAsRead ==
    /\ co_pc = "replaced"
    /\ ~co_spein
    /\ ~co_usaa
    /\ isstr(co_in)

\* C25: for every text cell the result of replace_value holds no key of
\* KNOWN_TERMS, so that a second replace_value changes nothing; a cell without
\* any key is returned unchanged.
C25_NoKnownTermLeft ==
    ReplacedAsRead
    => /\ ~HasKnownTerm(co_cell.s)
       /\ replace_value(co_cell) = co_cell
       /\ ~HasKnownTerm(co_in.s) => co_cell = co_in

\* C25, amended: the result of replace_value holds no key of KNOWN_TERMS, and
\* a second replace_value changes nothing, exactly when the cell does not
\* hold 'USAAA' (whose 'USAA' becomes 'USA' in front of the third 'A', a new
\* 'USAA'); a cell without any key is returned unchanged.
C25_NoKnownTermLeftUnlessUSAAA ==
    ReplacedAsRead
    => /\ ~HasKnownTerm(co_cell.s) <=> ~Contains(co_in.s, USAA \o <<"A">>)
       /\ replace_value(co_cell) = co_cell <=> ~Contains(co_in.s, USAA \o <<"A">>)
       /\ ~HasKnownTerm(co_in.s) => co_cell = co_in

\* 'USAA,Spein' became 'USA,Spain', which holds no key
C25_Witness ==
    /\ ReplacedAsRead
    /\ co_in = StrCell(USAA \o <<",">> \o Spein)
    /\ co_cell = StrCell(USA \o <<",">> \o Spain)

----------------------------------------------------------------------------
(* Claims about add_runtime_outliers after add_duplicate_rows *)

\* C26: add_runtime_outliers on the table add_duplicate_rows returned
\* completes without error and leaves the runtime of every row it did not
\* sample as it was.
C26_OutliersOnlyOnSampledRows ==
    ad_pc \in {"to_csv", "raised"}
    => /\ ad_pc = "to_csv"
       /\ Len(ad_movies_df) = Len(ad_before)
       /\ \A i \in 1..Len(ad_before) :
              (\A j \in 1..Len(ad_sample) : ad_sample[j] # i)
              => ad_movies_df[i].runtime = ad_before[i].runtime

====
